---- MODULE Spec2Model ----
(***************************************************************************)
(* The recipe import pipeline of whatEatBE (src/services/import.service.ts) *)
(* as a state machine: the URL fetch guard, the tiered extraction           *)
(* orchestrator, the envelope builder and the import job worker.            *)
(***************************************************************************)
EXTENDS Integers, Sequences, FiniteSets, TLC

(***************************************************************************)
(* Program constants                                                       *)
(***************************************************************************)
MAX_RETRIES == 3
MAX_HTML_BYTES == 1500000
MAX_REDIRECTS == 3
MAX_URL_LENGTH == 2048
MAX_TITLE_CHARS == 200
MAX_INGREDIENT_CHARS == 500
MAX_STEP_CHARS == 2000

(***************************************************************************)
(* Bounds of the model                                                     *)
(***************************************************************************)
MaxChunks == 2
MaxNodes == 2
MaxJobCalls == 4

(***************************************************************************)
(* Strings.  A string is NullStr (null) or ws leading white-space          *)
(* characters, an optional bullet glyph followed by one space, and core    *)
(* further characters that neither start nor end with white space.         *)
(***************************************************************************)
NullStr == [null |-> TRUE, ws |-> 0, bul |-> FALSE, core |-> 0]

Str(w, b, c) == [null |-> FALSE, ws |-> w, bul |-> b, core |-> c]

Min(a, b) == IF a < b THEN a ELSE b

BulletLen(s) == IF s.bul THEN (IF s.core > 0 THEN 2 ELSE 1) ELSE 0

StrLen(s) == s.ws + BulletLen(s) + s.core

\* JavaScript truthiness of a string | null value
Truthy(s) == ~s.null /\ StrLen(s) > 0

\* String.prototype.trim
Trim(s) == [s EXCEPT !.ws = 0]

\* String.prototype.slice(0, n)
Slice(s, n) ==
  LET w == Min(s.ws, n)
      b == s.bul /\ n - w > 0
      bl == IF b THEN Min(BulletLen(s), n - w) ELSE 0
  IN [null |-> FALSE, ws |-> w, bul |-> b, core |-> Min(s.core, n - w - bl)]

truncate(value, max) ==
  IF StrLen(value) <= max THEN value ELSE Trim(Slice(value, max))

\* value.replace(/^[-*•]\s*/, '').trim(): the glyph is removed only when
\* it is the very first character
stripBullet(value) ==
  IF value.ws = 0 /\ value.bul THEN Str(0, FALSE, value.core) ELSE Trim(value)

(***************************************************************************)
(* PartialRecipeData: the fields the envelope builder decides on.  schemaOk *)
(* stands for the remaining fields satisfying the wire schema.             *)
(***************************************************************************)
Normal == Str(0, FALSE, 5)
BulletOnly == Str(0, TRUE, 0)
BulletText == Str(0, TRUE, 5)
LongText == Str(0, FALSE, 2500)
PaddedTitle == Str(MAX_TITLE_CHARS + 1, FALSE, 5)
BlankTitle == Str(3, FALSE, 0)

\* titles as the JSON-LD and plain-text extractors produce them (trimmed)
TrimmedTitles == {NullStr, Str(0, FALSE, 0), Normal, LongText}
\* titles as the language model may return them (any string)
RawTitles == TrimmedTitles \cup {PaddedTitle, BlankTitle}

ItemLists == {<<>>, <<BulletOnly>>, <<BulletText, LongText>>}

DataOver(titles) ==
  [title : titles, ingredients : ItemLists, steps : ItemLists, schemaOk : BOOLEAN]

FilterTruthy(seq) == SelectSeq(seq, Truthy)

buildMissingFields(data) ==
  (IF ~Truthy(data.title) \/ StrLen(Trim(data.title)) = 0 THEN <<"title">> ELSE <<>>)
  \o (IF Len(data.ingredients) = 0 THEN <<"ingredients">> ELSE <<>>)
  \o (IF Len(data.steps) = 0 THEN <<"steps">> ELSE <<>>)

SanitizeIngredient(item) == truncate(stripBullet(item), MAX_INGREDIENT_CHARS)

SanitizeStep(item) == truncate(stripBullet(item), MAX_STEP_CHARS)

sanitizeRecipeData(data) ==
  [data EXCEPT
     !.title = IF Truthy(data.title) THEN truncate(data.title, MAX_TITLE_CHARS) ELSE NullStr,
     !.ingredients = FilterTruthy([i \in 1..Len(data.ingredients) |-> SanitizeIngredient(data.ingredients[i])]),
     !.steps = FilterTruthy([i \in 1..Len(data.steps) |-> SanitizeStep(data.steps[i])])]

\* recipeEnvelopeSchema.parse succeeds
recipeEnvelopeSchema(recipe) ==
  /\ StrLen(recipe.title) > 0
  /\ Len(recipe.ingredients) > 0
  /\ Len(recipe.steps) > 0
  /\ recipe.schemaOk

NoEnvelope == [title |-> NullStr, ingredients |-> <<>>, steps |-> <<>>, schemaOk |-> FALSE]

\* an ExtractionAttempt: envelope? and missing_fields?
Attempt(hasEnv, env, hasMissing, missing) ==
  [hasEnvelope |-> hasEnv, envelope |-> env,
   hasMissing |-> hasMissing, missing_fields |-> missing]

EmptyAttempt == Attempt(FALSE, NoEnvelope, FALSE, <<>>)

UntitledRecipe == Str(0, FALSE, 15)

EnvelopeOf(sanitized) ==
  [title |-> IF sanitized.title.null THEN UntitledRecipe ELSE sanitized.title,
   ingredients |-> sanitized.ingredients,
   steps |-> sanitized.steps,
   schemaOk |-> sanitized.schemaOk]

buildEnvelopeAttempt_noSchemaGate(data) ==
  IF Len(buildMissingFields(data)) > 0
  THEN Attempt(FALSE, NoEnvelope, TRUE, buildMissingFields(data))
  ELSE Attempt(TRUE, EnvelopeOf(sanitizeRecipeData(data)), FALSE, <<>>)

\* a schema failure swallowed without a trace
buildEnvelopeAttempt_emptyOnInvalid(data) ==
  IF Len(buildMissingFields(data)) > 0
  THEN Attempt(FALSE, NoEnvelope, TRUE, buildMissingFields(data))
  ELSE LET envelope == EnvelopeOf(sanitizeRecipeData(data))
       IN IF recipeEnvelopeSchema(envelope)
          THEN Attempt(TRUE, envelope, FALSE, <<>>)
          ELSE EmptyAttempt

buildEnvelopeAttempt(data) ==
  IF Len(buildMissingFields(data)) > 0
  THEN Attempt(FALSE, NoEnvelope, TRUE, buildMissingFields(data))
  ELSE LET envelope == EnvelopeOf(sanitizeRecipeData(data))
       IN IF recipeEnvelopeSchema(envelope)
          THEN Attempt(TRUE, envelope, FALSE, <<>>)
          ELSE Attempt(FALSE, NoEnvelope, TRUE, <<"ingredients", "steps">>)

(***************************************************************************)
(* Typed errors                                                            *)
(***************************************************************************)
NoAiFallback == [present |-> FALSE, attempted |-> FALSE, failed |-> FALSE]

ImportError(message, code, statusCode) ==
  [kind |-> "error", code |-> code, statusCode |-> statusCode, message |-> message,
   extracted_from |-> "none", envelope |-> NoEnvelope, warnings |-> <<>>,
   missing_fields |-> <<>>, ai_fallback |-> NoAiFallback]

\* an exception that is not an ImportError (TypeError, Error)
PlainError(message) == ImportError(message, "Error", 500)

NoOutcome == [ImportError("", "none", 0) EXCEPT !.kind = "none"]

(***************************************************************************)
(* IP addresses.  An IPv4 address is its four octets, an IPv6 address its  *)
(* eight 16-bit groups; the code sees the textual form.                    *)
(***************************************************************************)
V4(a, b, c, d) == [fam |-> 4, parts |-> <<a, b, c, d>>]

V6(g1, g6, g7, g8) == [fam |-> 6, parts |-> <<g1, 0, 0, 0, 0, g6, g7, g8>>]

Mapped(a, b, c, d) == V6(0, 65535, a * 256 + b, c * 256 + d)

PublicV4 == V4(8, 8, 8, 8)

V4Addrs ==
  { V4(127, 0, 0, 1), V4(10, 1, 2, 3), V4(172, 16, 0, 1), V4(172, 31, 255, 1),
    V4(172, 32, 0, 1), V4(172, 15, 0, 1), V4(192, 168, 1, 1), V4(192, 169, 1, 1),
    V4(169, 254, 169, 254), V4(100, 64, 0, 1), V4(100, 127, 0, 1),
    V4(100, 128, 0, 1), V4(0, 0, 0, 0), PublicV4 }

V6Addrs ==
  { V6(0, 0, 0, 1), V6(0, 0, 0, 0), V6(65152, 0, 0, 1), V6(65215, 0, 0, 1),
    V6(65216, 0, 0, 1), V6(64512, 0, 0, 1), V6(65023, 0, 0, 1),
    V6(8193, 0, 0, 1), Mapped(10, 0, 0, 1), Mapped(8, 8, 8, 8) }

Addrs == V4Addrs \cup V6Addrs

\* hexadecimal digits of a group without leading zeros, as inet_ntop prints it
RECURSIVE HexText(_)
HexText(n) == IF n < 16 THEN <<n>> ELSE HexText(n \div 16) \o <<n % 16>>

Colon == 16

IsMappedText(addr) ==
  addr.fam = 6 /\ \A i \in 1..5 : addr.parts[i] = 0 /\ addr.parts[6] = 65535

\* the text of an IPv6 address up to the first colon after its first group;
\* an address whose first group is 0 starts with "::" or "0:"
V6TextHead(addr) ==
  IF addr.parts[1] = 0 THEN <<Colon, Colon>> ELSE HexText(addr.parts[1]) \o <<Colon>>

StartsWith(text, prefix) ==
  Len(text) >= Len(prefix) /\ SubSeq(text, 1, Len(prefix)) = prefix

PrivateV4Parts(parts) ==
  \/ parts[1] = 10
  \/ parts[1] = 127
  \/ parts[1] = 0
  \/ parts[1] = 169 /\ parts[2] = 254
  \/ parts[1] = 172 /\ parts[2] >= 16 /\ parts[2] <= 31
  \/ parts[1] = 192 /\ parts[2] = 168
  \/ parts[1] = 100 /\ parts[2] >= 64 /\ parts[2] <= 127

MappedParts(addr) ==
  << addr.parts[7] \div 256, addr.parts[7] % 256, addr.parts[8] \div 256, addr.parts[8] % 256 >>

isPrivateIp(address) ==
  IF address.fam = 4 THEN PrivateV4Parts(address.parts)
  ELSE IF IsMappedText(address) THEN PrivateV4Parts(MappedParts(address))
  ELSE \/ address.parts = <<0, 0, 0, 0, 0, 0, 0, 1>>
       \/ address.parts = <<0, 0, 0, 0, 0, 0, 0, 0>>
       \/ StartsWith(V6TextHead(address), <<15, 14, 8, 0>>)
       \/ StartsWith(V6TextHead(address), <<15, 12>>)
       \/ StartsWith(V6TextHead(address), <<15, 13>>)

(***************************************************************************)
(* URLs.  A raw URL is described by what validateUrl looks at.             *)
(***************************************************************************)
Host(kind, addr) == [kind |-> kind, addr |-> addr]

LiteralAddrs ==
  { V4(127, 0, 0, 1), V4(10, 1, 2, 3), V4(172, 31, 255, 1), V4(192, 168, 1, 1),
    V4(169, 254, 169, 254), V4(100, 64, 0, 1), V4(0, 0, 0, 0), PublicV4 }

Hosts ==
  { Host("localhost", PublicV4), Host("dotlocal", PublicV4), Host("name", PublicV4) }
  \cup { Host("ip4", a) : a \in LiteralAddrs }

\* length: number of characters; parses: new URL(rawUrl) succeeds;
\* share: host ends with chatgpt.com and the path starts with /share/
Url(length, parses, protocol, creds, host, share) ==
  [length |-> length, parses |-> parses, protocol |-> protocol,
   credentials |-> creds, host |-> host, share |-> share]

GoodUrl == Url(40, TRUE, "https:", FALSE, Host("name", PublicV4), FALSE)

URLs ==
  { Url(40, TRUE, "https:", FALSE, h, FALSE) : h \in Hosts }
  \cup { Url(40, TRUE, "https:", TRUE, h, FALSE) :
           h \in {Host("name", PublicV4), Host("ip4", V4(10, 1, 2, 3)), Host("localhost", PublicV4)} }
  \cup { Url(l, TRUE, "https:", FALSE, Host("name", PublicV4), FALSE) :
           l \in {MAX_URL_LENGTH, MAX_URL_LENGTH + 1} }
  \cup { Url(40, FALSE, "https:", FALSE, Host("name", PublicV4), FALSE),
         Url(MAX_URL_LENGTH + 1, FALSE, "https:", FALSE, Host("name", PublicV4), FALSE),
         Url(40, TRUE, "ftp:", FALSE, Host("name", PublicV4), FALSE),
         Url(40, TRUE, "https:", FALSE, Host("name", PublicV4), TRUE) }

\* the answer of dns.lookup(hostname, {all: true})
DnsAnswer(fails, addresses) == [fails |-> fails, addresses |-> addresses]

DnsAnswers ==
  { DnsAnswer(TRUE, <<>>), DnsAnswer(FALSE, <<>>) }
  \cup { DnsAnswer(FALSE, <<a>>) : a \in Addrs }
  \cup { DnsAnswer(FALSE, <<PublicV4, a>>) : a \in V6Addrs \cup {V4(10, 1, 2, 3)} }

NoAnswer == DnsAnswer(TRUE, <<>>)

Ok == [ImportError("", "ok", 0) EXCEPT !.kind = "ok"]

HostIsLocal(host) == host.kind \in {"localhost", "dotlocal"}

UrlTooLong_offByOne(rawUrl) == rawUrl.length > MAX_URL_LENGTH + 1

\* rawUrl.length > 2048
UrlTooLong(rawUrl) == rawUrl.length > MAX_URL_LENGTH

validateUrl(rawUrl, answer) ==
  IF UrlTooLong(rawUrl)
    THEN ImportError("URL is too long.", "IMPORT_INVALID_URL", 400)
  ELSE IF ~rawUrl.parses
    THEN ImportError("URL is invalid.", "IMPORT_INVALID_URL", 400)
  ELSE IF rawUrl.protocol \notin {"http:", "https:"}
    THEN ImportError("Only http and https URLs are supported.", "IMPORT_INVALID_URL", 400)
  ELSE IF rawUrl.credentials
    THEN ImportError("URL credentials are not allowed.", "IMPORT_URL_BLOCKED", 400)
  ELSE IF HostIsLocal(rawUrl.host)
    THEN ImportError("That URL is not allowed.", "IMPORT_URL_BLOCKED", 400)
  ELSE IF rawUrl.host.kind = "ip4"
    THEN IF isPrivateIp(rawUrl.host.addr)
         THEN ImportError("That URL is not allowed.", "IMPORT_URL_BLOCKED", 400)
         ELSE Ok
  ELSE IF answer.fails \/ Len(answer.addresses) = 0
    THEN ImportError("We could not resolve that host.", "IMPORT_FETCH_FAILED", 502)
  ELSE IF \E i \in 1..Len(answer.addresses) : isPrivateIp(answer.addresses[i])
    THEN ImportError("That URL is not allowed.", "IMPORT_URL_BLOCKED", 400)
  ELSE Ok

(***************************************************************************)
(* HTTP responses                                                          *)
(***************************************************************************)
\* a Content-Type header value as the pieces of its text; absent = no header
ContentType(present, atoms) == [present |-> present, atoms |-> atoms]

NoContentType == ContentType(FALSE, <<>>)

ContentTypes ==
  { NoContentType, ContentType(TRUE, <<>>),
    ContentType(TRUE, <<"text/html">>), ContentType(TRUE, <<"text/html", "; charset=utf-8">>),
    ContentType(TRUE, <<"TEXT/HTML">>), ContentType(TRUE, <<"application/xhtml+xml">>),
    ContentType(TRUE, <<"application/ld+json">>), ContentType(TRUE, <<"application/json">>),
    ContentType(TRUE, <<"application/json", "-seq">>),
    ContentType(TRUE, <<"image/png">>), ContentType(TRUE, <<"text/plain">>) }

ToLowerCase(atom) == IF atom = "TEXT/HTML" THEN "text/html" ELSE atom

\* String.prototype.includes on the lower-cased header text
Includes(contentType, needle) ==
  \E i \in 1..Len(contentType.atoms) : ToLowerCase(contentType.atoms[i]) = needle

isSupportedContentType_anyText(contentType) ==
  \/ Includes(contentType, "text/html")
  \/ Includes(contentType, "text/plain")
  \/ Includes(contentType, "application/xhtml+xml")
  \/ Includes(contentType, "application/ld+json")
  \/ Includes(contentType, "application/json")

isSupportedContentType(contentType) ==
  \/ Includes(contentType, "text/html")
  \/ Includes(contentType, "application/xhtml+xml")
  \/ Includes(contentType, "application/ld+json")
  \/ Includes(contentType, "application/json")

\* a header value is truthy when present and not the empty string
HeaderTruthy(contentType) == contentType.present /\ Len(contentType.atoms) > 0

\* a Content-Length header: absent, not a number (Number() = NaN), or a number
ContentLength(present, numeric, value) ==
  [present |-> present, numeric |-> numeric, value |-> value]

ContentLengths ==
  { ContentLength(FALSE, FALSE, 0), ContentLength(TRUE, FALSE, 0),
    ContentLength(TRUE, TRUE, MAX_HTML_BYTES),
    ContentLength(TRUE, TRUE, MAX_HTML_BYTES + 1), ContentLength(TRUE, TRUE, 5000000) }

Statuses == {200, 299, 300, 399, 400}

ChunkSizes == {1, 750000, MAX_HTML_BYTES}

Locations == {"missing", "unparsable", "url"}

ContentLengthExceeds(contentLength, limit) ==
  contentLength.present /\ contentLength.numeric /\ contentLength.value > limit


(***************************************************************************)
(* State                                                                   *)
(***************************************************************************)
VARIABLES
  aiConfigured,    \* this.openai is not null
  mode,            \* who calls the pipeline: "preview" or "worker" (processJob)
  pc,              \* position of the extractFromUrl call in flight
  hop,             \* loop index i of fetchWithGuards
  cur,             \* currentUrl / the raw URL under validation
  resolved,        \* the DNS answer validateUrl checked for this hop
  total,           \* running byte total of readBodyWithLimit
  chunksRead,      \* body chunks handed out by reader.read()
  page,            \* what the fetched page is: [share, jsonldValid]
  missingFields,   \* the orchestrator's missing-field set, in insertion order
  aiTextOverride,  \* "none", "share" or "readability"
  warnings,
  outcome,         \* what extractFromUrl returned or threw
  job,             \* the import_jobs row
  jobRow,          \* the row as processJob read it
  jpc,             \* position of the processJob call in flight
  nJobCalls,
  recipes,         \* rows of the recipes table created by processJob
  fhist,           \* observations of the fetch guard's run
  hist,            \* observations of the orchestrator's run
  usage,           \* the user's usage_counters row of today
  quota,           \* observations of previewFromUrl's counter gate
  response,        \* the HTTP response of POST /import/url
  norm,            \* a taxonomy normalizer applied to a value and to its own result
  runs,            \* the extractFromUrl calls in flight at once, each with its locals
  miner,           \* the section miner applied to a text
  jsonld,          \* extractFromJsonLd applied to a document
  aitext,         \* the text extractFromAI puts into its prompt, as a length
  wire,           \* one fetchWithGuards call on the wire: its abort timer and what the server sends
  built,          \* buildEnvelopeAttempt applied to extracted data and merged by the orchestrator
  previews,        \* concurrent previewFromUrl calls of one user on one day, and the counter row
  lookup,         \* one hop of fetchWithGuards: the addresses validateUrl checked and the one fetch connected to
  store,          \* one user's copies and recipe_saves rows of one source recipe, and the calls at work on them
  plan            \* one generateSharedForAllUsers call, its daily_meal_plans row and items

vars ==
  << aiConfigured, mode, pc, hop, cur, resolved, total, chunksRead, page,
     missingFields, aiTextOverride, warnings, outcome, job, jobRow, jpc,
     nJobCalls, recipes, fhist, hist, usage, quota, response, norm, runs, miner, jsonld, aitext, wire, built, previews, lookup, store, plan >>

jobVars == << job, jobRow, jpc, nJobCalls, recipes >>

gateVars == << usage, quota, response >>

\* the state of the parts checked on their own
libVars == << norm, runs, miner, jsonld, aitext, wire, built, previews, lookup, store, plan >>

\* the configuration and the scenario
envVars == << aiConfigured, mode, libVars >>

\* what neither the pipeline nor the worker writes
fixedVars == << envVars, gateVars >>

NoPage == [share |-> FALSE, jsonldValid |-> FALSE]

\* fhist, kept while fetchWithGuards runs and until its result is taken:
\*   blockedHop      a hop's host was in, or resolved into, a blocked range
\*   blockedRequest  fetch() was called for such a hop
\*   requests        calls of fetch()
\*   redirects       3xx responses received
\*   accepted        URLs validateUrl accepted
\*   internalHost    the host of the URL validated last is, or resolves to,
\*                   an internal address
\*   declared        how the 2xx response declared its content type
\*   lengthOver      readBodyWithLimit saw a Content-Length above the cap
NoFetchHist ==
  [blockedHop |-> FALSE, blockedRequest |-> FALSE, requests |-> 0, redirects |-> 0,
   accepted |-> 0, internalHost |-> FALSE, declared |-> "none", lengthOver |-> FALSE]

\* hist: guardError   the error the fetch guard raised
\*       ran          the tiers executed
\*       succeeded    the tiers that produced an envelope
\*       reported     the union of the missing fields the tiers returned
\*       aiCalls      chat-completion requests sent
\*       signal       a tier found a title, an ingredient or a step
NoHist ==
  [guardError |-> NoOutcome, ran |-> {}, succeeded |-> {}, reported |-> {}, aiCalls |-> 0,
   signal |-> FALSE]

JobTypes == {"url", "image", "invalid"}

DAILY_IMPORT_LIMIT == 20

\* a usage_counters row; exists = FALSE when the user has none for today
UsageRow(exists, count) == [exists |-> exists, imports_count |-> count]

NoUsageRow == UsageRow(FALSE, 0)

UsageRows ==
  {NoUsageRow} \cup {UsageRow(TRUE, n) : n \in {0, DAILY_IMPORT_LIMIT - 1, DAILY_IMPORT_LIMIT,
                                                DAILY_IMPORT_LIMIT + 1}}

\* quota: checked      checkDailyImportLimit read the counter
\*        before       the row as it was when previewFromUrl was called
\*        started      previewFromUrl called extractFromUrl
NoQuota == [checked |-> FALSE, before |-> NoUsageRow, started |-> FALSE]

\* an HTTP response: its status and the keys and values of its JSON body
HttpResponse(status, keys, error, code) ==
  [sent |-> TRUE, status |-> status, keys |-> keys, error |-> error, code |-> code]

NoHttpResponse == [HttpResponse(0, {}, "", "") EXCEPT !.sent = FALSE]

NewJob(type, url) ==
  [type |-> type, input_url |-> url, status |-> "pending", retries |-> 0,
   error_message |-> "", result_recipe_id |-> 0]

PipelineInit ==
  /\ aiConfigured \in BOOLEAN
  /\ mode \in {"preview", "worker", "gated"}
  /\ pc = "idle"
  /\ hop = 0
  /\ cur = GoodUrl
  /\ resolved = NoAnswer
  /\ total = 0
  /\ chunksRead = 0
  /\ page = NoPage
  /\ missingFields = <<>>
  /\ aiTextOverride = "none"
  /\ warnings = <<>>
  /\ outcome = NoOutcome
  /\ job \in {NewJob(t, GoodUrl) : t \in IF mode = "worker" THEN JobTypes ELSE {"url"}}
  /\ jobRow = job
  /\ jpc = "idle"
  /\ nJobCalls = 0
  /\ recipes = 0
  /\ fhist = NoFetchHist
  /\ hist = NoHist
  /\ usage \in IF mode = "gated" THEN UsageRows ELSE {NoUsageRow}
  /\ quota = [NoQuota EXCEPT !.before = usage]
  /\ response = NoHttpResponse

\* norm: kind    "tags", "cuisine" or "dietary_labels"
\*       value   the array of strings the normalizer is given
\*       field   the field of the envelope sanitizeRecipeData makes of value
\*       once    the normalizer's result for value
\*       twice   the normalizer's result for once
NoNorm == [kind |-> "none", value |-> <<>>, pc |-> "idle",
           field |-> <<>>, once |-> <<>>, twice |-> <<>>]

\* the calls of extractFromUrl that overlap
Execs == {1, 2}

\* one call of extractFromUrl: its position, what fetchWithGuards and
\* extractFromAI gave it, and its locals (lines 218-220)
NoRun ==
  [pc |-> "idle", fetched |-> FALSE, content |-> {}, ai |-> {}, overlapped |-> FALSE,
   warnings |-> <<>>, missingFields |-> <<>>, aiTextOverride |-> "none",
   outcome |-> NoOutcome]

\* miner: the text given to extractFromPlainText and what it mined
NoMiner == [pc |-> "idle", text |-> <<>>, title |-> <<>>, ingredients |-> <<>>, steps |-> <<>>]

\* jsonld: the JSON-LD blocks of a document and what extractFromJsonLd returned
NoJsonLd == [pc |-> "idle", blocks |-> <<>>, attempt |-> EmptyAttempt]

\* aitext: the texts one page yields, the override the orchestrator keeps and
\* the text extractFromAI sent, all as lengths
NoAiText ==
  [pc |-> "idle", share |-> FALSE, shareText |-> 0, readabilityText |-> 0, htmlText |-> 0,
   override |-> [set |-> FALSE, len |-> 0], attempted |-> FALSE, sent |-> 0]

\* wire: the loop index, the timer and what was read of the body; redirects,
\* chunks and stall describe the server
NoWire ==
  [pc |-> "idle", i |-> 0, timer |-> FALSE, read |-> 0, code |-> "none",
   redirects |-> 0, chunks |-> 0, stall |-> [at |-> "none", hop |-> 0, chunk |-> 0]]

\* built: the data of one tier, the missing fields before and after its attempt
NoBuilt ==
  [pc |-> "idle", data |-> NoEnvelope, before |-> <<>>, attempt |-> EmptyAttempt,
   after |-> <<>>]

\* previews: the counter row, the calls that went on to extractFromUrl today,
\* and each call's position and the row its select returned
NoPreviews == [row |-> NoUsageRow, passed |-> 0, proc |-> <<>>]

\* lookup: the host of the hop, the addresses validateUrl checked and the
\* address fetch connected to
NoLookup ==
  [pc |-> "idle", host |-> Host("name", PublicV4), checked |-> {}, connected |-> PublicV4]

\* store: copies and rows as in the tables; deletes counts the delete calls;
\* faulted records that a database request failed for a reason of its own;
\* refusedWithoutCopy records a 'Recipe already saved' given while the user
\* had no live copy; proc holds each createRecipeSave call
NoStore ==
  [copies |-> <<>>, rows |-> {}, deletes |-> 0, faulted |-> FALSE,
   refusedWithoutCopy |-> FALSE, proc |-> <<>>]

\* plan: the daily_meal_plans row (exists, status), the suggestions generated
\* (n) and saved, the items collected (ranks) and inserted, how the call
\* ended, and what GET /daily/suggestions served
NoPlan ==
  [pc |-> "idle", exists |-> FALSE, status |-> "none", n |-> 0, saved |-> 0,
   planItems |-> <<>>, items |-> {}, result |-> "none", served |-> "none",
   servedItems |-> {}]

\* the parts checked on their own are at rest
LibIdle(checked) ==
  /\ "norm" \in checked \/ norm = NoNorm
  /\ "runs" \in checked \/ runs = [p \in Execs |-> NoRun]
  /\ "miner" \in checked \/ miner = NoMiner
  /\ "jsonld" \in checked \/ jsonld = NoJsonLd
  /\ "aitext" \in checked \/ aitext = NoAiText
  /\ "wire" \in checked \/ wire = NoWire
  /\ "built" \in checked \/ built = NoBuilt
  /\ "previews" \in checked \/ previews = NoPreviews
  /\ "lookup" \in checked \/ lookup = NoLookup
  /\ "store" \in checked \/ store = NoStore
  /\ "plan" \in checked \/ plan = NoPlan

Init == PipelineInit /\ LibIdle({})

\* the variables of the pipeline, the worker and the route
mainVars ==
  << aiConfigured, mode, pc, hop, cur, resolved, total, chunksRead, page,
     missingFields, aiTextOverride, warnings, outcome, jobVars, fhist, hist, gateVars >>

\* the environment's choices: the worker scenario draws them from smaller sets
Inputs(full, small) == IF mode = "preview" THEN full ELSE small

(***************************************************************************)
(* The fetch guard: fetchWithGuards, validateUrl, readBodyWithLimit        *)
(***************************************************************************)
\* the blocked ranges: 127.0.0.0/8, 10.0.0.0/8, 172.16.0.0/12, 192.168.0.0/16,
\* 169.254.0.0/16, 100.64.0.0/10, ::1, fc00::/7, fe80::/10 (an IPv4-mapped
\* IPv6 address counts as its IPv4 address)
InBlockedV4(parts) ==
  \/ parts[1] = 127
  \/ parts[1] = 10
  \/ parts[1] = 172 /\ parts[2] \div 16 = 1
  \/ parts[1] = 192 /\ parts[2] = 168
  \/ parts[1] = 169 /\ parts[2] = 254
  \/ parts[1] = 100 /\ parts[2] \div 64 = 1

InBlockedRange(addr) ==
  IF addr.fam = 4 THEN InBlockedV4(addr.parts)
  ELSE IF IsMappedText(addr) THEN InBlockedV4(MappedParts(addr))
  ELSE \/ addr.parts = <<0, 0, 0, 0, 0, 0, 0, 1>>
       \/ addr.parts[1] \div 512 = 64512 \div 512
       \/ addr.parts[1] \div 64 = 65152 \div 64

\* the URL reaches the host checks of validateUrl
WellFormed(u) ==
  /\ u.length <= MAX_URL_LENGTH /\ u.parses /\ u.protocol \in {"http:", "https:"}
  /\ ~u.credentials /\ ~HostIsLocal(u.host)

HopBlocked(u, answer) ==
  /\ WellFormed(u)
  /\ IF u.host.kind = "ip4" THEN InBlockedRange(u.host.addr)
     ELSE /\ ~answer.fails
          /\ \E i \in 1..Len(answer.addresses) : InBlockedRange(answer.addresses[i])

\* an internal address: one of a blocked range, or the unspecified address
InternalAddr(addr) ==
  \/ InBlockedRange(addr)
  \/ addr.fam = 4 /\ addr.parts[1] = 0
  \/ addr.fam = 6 /\ addr.parts = <<0, 0, 0, 0, 0, 0, 0, 0>>

HostInternal(u, answer) ==
  /\ WellFormed(u)
  /\ IF u.host.kind = "ip4" THEN InternalAddr(u.host.addr)
     ELSE /\ ~answer.fails
          /\ \E i \in 1..Len(answer.addresses) : InternalAddr(answer.addresses[i])

\* the state of a call of extractFromUrl(url) that has not started
FreshPipeline(url) ==
  /\ hop' = 0
  /\ cur' = url
  /\ resolved' = NoAnswer
  /\ total' = 0
  /\ chunksRead' = 0
  /\ page' = NoPage
  /\ missingFields' = <<>>
  /\ aiTextOverride' = "none"
  /\ warnings' = <<>>
  /\ fhist' = NoFetchHist
  /\ hist' = NoHist

GuardThrow_swallowed(error, fh) ==
  /\ pc' = "jsonld"
  /\ outcome' = outcome
  /\ fhist' = fh
  /\ hist' = [hist EXCEPT !.guardError = error]

\* line 215: fetchWithGuards raises and the error leaves extractFromUrl
GuardThrow(error, fh) ==
  /\ pc' = "done"
  /\ outcome' = error
  /\ fhist' = fh
  /\ hist' = [hist EXCEPT !.guardError = error]

\* an error that is not an ImportError; its class name stands for its code
RateLimitError(message) == ImportError(message, "RateLimitError", 0)

\* data?.imports_count ?? 0
ImportsCount(row) == IF row.exists THEN row.imports_count ELSE 0

\* lines 422-431
checkDailyImportLimit(row) == ImportsCount(row) < DAILY_IMPORT_LIMIT

\* lines 434-482: the row incrementImportCounter leaves behind
incrementImportCounter(row, readFails, writeFails) ==
  IF readFails \/ writeFails THEN row
  ELSE IF ~row.exists THEN UsageRow(TRUE, 1)
  ELSE UsageRow(TRUE, row.imports_count + 1)

\* lines 200-203: the counter is read; at the limit the call ends
PreviewCheck ==
  /\ mode = "gated"
  /\ pc = "idle"
  /\ ~quota.checked
  /\ quota' = [quota EXCEPT !.checked = TRUE]
  /\ IF checkDailyImportLimit(usage)
     THEN pc' = "increment" /\ UNCHANGED outcome
     ELSE pc' = "done" /\ outcome' = RateLimitError("Daily import limit reached")
  /\ UNCHANGED << envVars, usage, response, hop, cur, resolved, total,
                  chunksRead, page, missingFields, aiTextOverride, warnings, fhist, hist,
                  jobVars >>

\* lines 205-206: incrementImportCounter, then extractFromUrl(url) is called
PreviewFromUrl(url, readFails, writeFails) ==
  /\ mode = "gated"
  /\ pc = "increment"
  /\ usage' = incrementImportCounter(usage, readFails, writeFails)
  /\ quota' = [quota EXCEPT !.started = TRUE]
  /\ FreshPipeline(url)
  /\ pc' = "validate"
  /\ outcome' = NoOutcome
  /\ UNCHANGED << envVars, response, jobVars >>

\* err instanceof AppError: ImportError and RateLimitError are AppErrors
IsAppError(err) == err.code \notin {"Error", "ZodError"}

\* the response errorHandler sends for err
errorHandler(err, production) ==
  IF IsAppError(err)
  THEN HttpResponse(err.statusCode, {"error", "code"}, err.message, err.code)
  ELSE IF err.code = "ZodError"
  THEN HttpResponse(400, {"error", "details"}, "Validation error", "")
  ELSE HttpResponse(500, {"error"},
                    IF production THEN "Internal server error" ELSE err.message, "")

\* router.post('/url'): importUrlSchema.parse(req.body) throws
RouteInvalidBody ==
  /\ mode = "gated"
  /\ pc = "idle"
  /\ ~quota.checked
  /\ pc' = "done"
  /\ outcome' = ImportError("Validation error", "ZodError", 400)
  /\ UNCHANGED << envVars, gateVars, hop, cur, resolved, total, chunksRead, page,
                  missingFields, aiTextOverride, warnings, fhist, hist, jobVars >>

\* router.post('/url'): res.json(...) of the result, or next(err) and errorHandler
RouteResponds(production) ==
  /\ mode = "gated"
  /\ pc = "done"
  /\ ~response.sent
  /\ response' =
       IF outcome.kind = "success"
       THEN HttpResponse(200, {"extracted_from", "warnings", "recipe_data", "save_payload"}, "", "")
       ELSE errorHandler(outcome, production)
  /\ UNCHANGED << envVars, usage, quota, pc, outcome, hop, cur, resolved, total,
                  chunksRead, page, missingFields, aiTextOverride, warnings, fhist, hist,
                  jobVars >>

\* extractFromUrl(url) is called on its own
ExtractFromUrl(url) ==
  /\ mode = "preview"
  /\ pc = "idle"
  /\ FreshPipeline(url)
  /\ pc' = "validate"
  /\ outcome' = NoOutcome
  /\ UNCHANGED << fixedVars, jobVars >>

RedirectLoopDone_extraHop(i) == i > MAX_REDIRECTS + 1

\* the loop test of fetchWithGuards fails for index i
RedirectLoopDone(i) == i > MAX_REDIRECTS

\* validateUrl(cur), then the loop test
ValidateUrl(answer) ==
  /\ pc = "validate"
  /\ (WellFormed(cur) /\ cur.host.kind = "name") \/ answer = NoAnswer
  /\ LET result == validateUrl(cur, answer)
         fh == [fhist EXCEPT !.blockedHop = @ \/ HopBlocked(cur, answer),
                             !.internalHost = HostInternal(cur, answer)]
     IN IF result.kind = "error"
        THEN GuardThrow(result, fh) /\ UNCHANGED resolved
        ELSE IF RedirectLoopDone(hop)
        THEN /\ GuardThrow(ImportError("Too many redirects.", "IMPORT_TOO_MANY_REDIRECTS", 400),
                           [fh EXCEPT !.accepted = @ + 1])
             /\ UNCHANGED resolved
        ELSE /\ pc' = "request"
             /\ resolved' = answer
             /\ fhist' = [fh EXCEPT !.accepted = @ + 1]
             /\ UNCHANGED << outcome, hist >>
  /\ UNCHANGED << fixedVars, hop, cur, total, chunksRead, page,
                  missingFields, aiTextOverride, warnings, jobVars >>

\* what every call of fetch(currentUrl) leaves behind
Requested ==
  [fhist EXCEPT !.requests = @ + 1,
                !.blockedRequest = @ \/ HopBlocked(cur, resolved)]

\* fetch() rejects: network failure or the abort timer
FetchFails ==
  /\ pc = "request"
  /\ resolved' = NoAnswer
  /\ GuardThrow(ImportError("We could not reach that URL.", "IMPORT_FETCH_FAILED", 502), Requested)
  /\ UNCHANGED << fixedVars, hop, cur, total, chunksRead, page,
                  missingFields, aiTextOverride, warnings, jobVars >>

\* a 3xx response
FetchRedirect(status, location, target) ==
  /\ pc = "request"
  /\ status >= 300 /\ status < 400
  /\ resolved' = NoAnswer
  /\ LET fh == [Requested EXCEPT !.redirects = @ + 1]
     IN CASE location = "missing" ->
               /\ GuardThrow(ImportError("Redirect missing location header.", "IMPORT_FETCH_FAILED", 502), fh)
               /\ UNCHANGED << hop, cur >>
          [] location = "unparsable" ->
               /\ GuardThrow(PlainError("Invalid URL"), fh)
               /\ UNCHANGED << hop, cur >>
          [] location = "url" ->
               /\ cur' = target
               /\ hop' = hop + 1
               /\ pc' = "validate"
               /\ fhist' = fh
               /\ UNCHANGED << outcome, hist >>
  /\ UNCHANGED << fixedVars, total, chunksRead, page,
                  missingFields, aiTextOverride, warnings, jobVars >>

\* a response that is neither a redirect nor ok
FetchNotOk(status) ==
  /\ pc = "request"
  /\ ~(status >= 300 /\ status < 400)
  /\ ~(status >= 200 /\ status <= 299)
  /\ resolved' = NoAnswer
  /\ GuardThrow(ImportError("We could not fetch that page.", "IMPORT_FETCH_FAILED", 502), Requested)
  /\ UNCHANGED << fixedVars, hop, cur, total, chunksRead, page,
                  missingFields, aiTextOverride, warnings, jobVars >>

\* the media types the guard is meant to accept
Accepted == {"text/html", "application/xhtml+xml", "application/json", "application/ld+json"}

\* how a response declares its content type: no header ("absent"), an empty
\* header, one of the accepted media types, another media type whose name
\* contains an accepted one ("contains"), or any other media type
Declared(contentType) ==
  IF ~contentType.present THEN "absent"
  ELSE IF Len(contentType.atoms) = 0 THEN "empty"
  ELSE IF Len(contentType.atoms) = 2 /\ contentType.atoms[2] = "-seq" THEN "contains"
  ELSE IF ToLowerCase(contentType.atoms[1]) \in Accepted THEN "accepted"
  ELSE "other"

\* the header states a number of bytes above the cap
LengthOver(contentLength) ==
  contentLength.present /\ contentLength.numeric /\ contentLength.value >= MAX_HTML_BYTES + 1

\* a 2xx response: the content-type test, then the start of readBodyWithLimit
FetchOk(status, contentType, contentLength, hasBody) ==
  /\ pc = "request"
  /\ status >= 200 /\ status <= 299
  /\ resolved' = NoAnswer
  /\ LET fh == [Requested EXCEPT !.declared = Declared(contentType)]
     IN IF HeaderTruthy(contentType) /\ ~isSupportedContentType(contentType)
        THEN GuardThrow(ImportError("That page does not contain readable recipe content.",
                                    "IMPORT_UNSUPPORTED_CONTENT", 415), fh)
        ELSE IF ContentLengthExceeds(contentLength, MAX_HTML_BYTES)
        THEN GuardThrow(ImportError("Page is too large to import.",
                                    "IMPORT_CONTENT_TOO_LARGE", 413),
                        [fh EXCEPT !.lengthOver = LengthOver(contentLength)])
        ELSE /\ pc' = IF hasBody THEN "body" ELSE "fetched"
             /\ fhist' = [fh EXCEPT !.lengthOver = LengthOver(contentLength)]
             /\ UNCHANGED << outcome, hist >>
  /\ UNCHANGED << fixedVars, hop, cur, total, chunksRead, page,
                  missingFields, aiTextOverride, warnings, jobVars >>

TotalExceeds_offByOne(sum, limit) == sum > limit + 1

\* the running total exceeds the limit
TotalExceeds(sum, limit) == sum > limit

\* reader.read() hands out a chunk of size bytes
ReadChunk(size) ==
  /\ pc = "body"
  /\ chunksRead < MaxChunks
  /\ chunksRead' = chunksRead + 1
  /\ total' = total + size
  /\ IF TotalExceeds(total + size, MAX_HTML_BYTES)
     THEN GuardThrow(ImportError("Page is too large to import.",
                                 "IMPORT_CONTENT_TOO_LARGE", 413), fhist)
     ELSE UNCHANGED << pc, outcome, fhist, hist >>
  /\ UNCHANGED << fixedVars, hop, cur, resolved, page,
                  missingFields, aiTextOverride, warnings, jobVars >>

\* reader.read() reports done: the body is returned
ReadDone ==
  /\ pc = "body"
  /\ pc' = "fetched"
  /\ UNCHANGED << fixedVars, hop, cur, resolved, total, chunksRead, page,
                  missingFields, aiTextOverride, warnings, outcome, fhist, hist, jobVars >>

(***************************************************************************)
(* The extraction tiers                                                    *)
(***************************************************************************)
Range(seq) == {seq[i] : i \in 1..Len(seq)}

AddAll_replace(set, fields) == fields

\* fields.forEach((field) => missingFields.add(field))
AddAll(set, fields) == set \o SelectSeq(fields, LAMBDA f : f \notin Range(set))

MergeMissing(set, attempt) ==
  IF attempt.hasMissing THEN AddAll(set, attempt.missing_fields) ELSE set

Success(tier, envelope, warns) ==
  [kind |-> "success", code |-> "", statusCode |-> 200, message |-> "",
   extracted_from |-> tier, envelope |-> envelope, warnings |-> warns,
   missing_fields |-> <<>>, ai_fallback |-> NoAiFallback]

RequiredFields == {"title", "ingredients", "steps"}

\* the observation that a tier ran and returned attempt
Ran(h, tier, attempt) ==
  [h EXCEPT !.ran = @ \cup {tier},
            !.succeeded = IF attempt.hasEnvelope THEN @ \cup {tier} ELSE @,
            !.reported = IF attempt.hasMissing THEN @ \cup Range(attempt.missing_fields) ELSE @,
            !.signal = \/ @
                       \/ attempt.hasEnvelope
                       \/ attempt.hasMissing /\ Range(attempt.missing_fields) # RequiredFields]

Data(title, ingredients, steps, schemaOk) ==
  [title |-> title, ingredients |-> ingredients, steps |-> steps, schemaOk |-> schemaOk]

GoodData == Data(Normal, <<BulletText, LongText>>, <<BulletText, LongText>>, TRUE)

NoStepsData == Data(Normal, <<BulletText, LongText>>, <<>>, TRUE)

\* what the worker scenario's pages hold
SmallData == {GoodData, NoStepsData}

PlainTextData == DataOver(TrimmedTitles)

\* the Recipe nodes of a page: complete, complete but not of the schema,
\* emptied by sanitization, without steps, without a name, without anything
NodeData ==
  { GoodData,
    Data(Normal, <<BulletText, LongText>>, <<BulletText, LongText>>, FALSE),
    Data(Normal, <<BulletOnly>>, <<BulletText, LongText>>, TRUE),
    NoStepsData,
    Data(NullStr, <<BulletText, LongText>>, <<BulletText, LongText>>, TRUE),
    Data(NullStr, <<>>, <<>>, TRUE) }

NodeLists == UNION {[1..n -> NodeData] : n \in 0..MaxNodes}

AiData == DataOver(RawTitles)

\* the least index of a node that builds, 0 when none does
RECURSIVE FirstBuilding(_, _)
FirstBuilding(nodes, i) ==
  IF i > Len(nodes) THEN 0
  ELSE IF buildEnvelopeAttempt(nodes[i]).hasEnvelope THEN i
  ELSE FirstBuilding(nodes, i + 1)

\* a tier that reported what any node misses
extractFromJsonLd_union(recipes_) ==
  IF FirstBuilding(recipes_, 1) > 0
  THEN buildEnvelopeAttempt(recipes_[FirstBuilding(recipes_, 1)])
  ELSE IF Len(recipes_) > 0
  THEN Attempt(FALSE, NoEnvelope,
               \E i \in 1..Len(recipes_) : Len(buildMissingFields(recipes_[i])) > 0,
               SelectSeq(<<"title", "ingredients", "steps">>,
                         LAMBDA f : \E i \in 1..Len(recipes_) :
                                      f \in Range(buildMissingFields(recipes_[i]))))
  ELSE EmptyAttempt

\* extractFromJsonLd on a page whose Recipe nodes are recipes
extractFromJsonLd(recipes_) ==
  IF FirstBuilding(recipes_, 1) > 0
  THEN buildEnvelopeAttempt(recipes_[FirstBuilding(recipes_, 1)])
  ELSE IF Len(recipes_) > 0
  THEN Attempt(FALSE, NoEnvelope, Len(buildMissingFields(recipes_[1])) > 0,
               buildMissingFields(recipes_[1]))
  ELSE EmptyAttempt

\* lines 215-222: fetchWithGuards returned; the page is what it is
BeginExtract(valid) ==
  /\ pc = "fetched"
  /\ page' = [share |-> cur.share, jsonldValid |-> valid]
  /\ pc' = IF cur.share THEN "chatgpt" ELSE "jsonld"
  /\ hop' = 0
  /\ cur' = GoodUrl
  /\ total' = 0
  /\ chunksRead' = 0
  /\ fhist' = NoFetchHist
  /\ UNCHANGED << fixedVars, resolved, missingFields, aiTextOverride, warnings,
                  outcome, hist, jobVars >>

TierStep_noEarlyReturn(tier, attempt, hasText, next, warning) ==
  /\ pc = tier
  /\ hist' = Ran(hist, tier, attempt)
  /\ aiTextOverride' = aiTextOverride
  /\ warnings' = warnings
  /\ outcome' = outcome
  /\ missingFields' = MergeMissing(missingFields, attempt)
  /\ pc' = next
  /\ UNCHANGED << fixedVars, hop, cur, resolved, total, chunksRead, page, fhist, jobVars >>

\* one tier of the orchestrator returned attempt (and recovered text or not)
TierStep(tier, attempt, hasText, next, warning) ==
  /\ pc = tier
  /\ hist' = Ran(hist, tier, attempt)
  /\ aiTextOverride' = IF hasText /\ tier = "chatgpt" THEN "share"
                       ELSE IF hasText /\ tier = "readability" /\ aiTextOverride = "none"
                       THEN "readability"
                       ELSE aiTextOverride
  /\ IF attempt.hasEnvelope
     THEN /\ warnings' = warnings \o warning
          /\ outcome' = Success(tier, attempt.envelope, warnings \o warning)
          /\ pc' = "done"
          /\ UNCHANGED missingFields
     ELSE /\ missingFields' = MergeMissing(missingFields, attempt)
          /\ pc' = next
          /\ UNCHANGED << warnings, outcome >>
  /\ UNCHANGED << fixedVars, hop, cur, resolved, total, chunksRead, page, fhist, jobVars >>

\* lines 222-237; found = a recipe-shaped candidate text was recovered
ShareTier(found, data) ==
  IF found
  THEN TierStep("chatgpt", buildEnvelopeAttempt(data), TRUE, "jsonld", <<>>)
  ELSE TierStep("chatgpt", EmptyAttempt, FALSE, "jsonld", <<>>)

\* lines 239-249
JsonLdTier(nodes) ==
  /\ extractFromJsonLd(nodes).hasEnvelope = page.jsonldValid
  /\ TierStep("jsonld", extractFromJsonLd(nodes), FALSE, "readability", <<>>)

\* a tier whose exception left extractFromUrl
ReadabilityTier_throws(kind, data) ==
  IF kind = "text"
  THEN TierStep("readability", buildEnvelopeAttempt(data), TRUE, "heuristic",
                <<"Used readability extraction">>)
  ELSE /\ pc = "readability"
       /\ pc' = "done"
       /\ outcome' = PlainError("Readability extraction failed")
       /\ hist' = Ran(hist, "readability", EmptyAttempt)
       /\ UNCHANGED << fixedVars, hop, cur, resolved, total, chunksRead, page, fhist, jobVars,
                       missingFields, aiTextOverride, warnings >>

\* lines 251-265; kind: Readability throws, finds no text, or finds text
ReadabilityTier(kind, data) ==
  IF kind = "text"
  THEN TierStep("readability", buildEnvelopeAttempt(data), TRUE, "heuristic",
                <<"Used readability extraction">>)
  ELSE TierStep("readability", EmptyAttempt, FALSE, "heuristic",
                <<"Used readability extraction">>)

\* lines 267-278
HeuristicTier(data) ==
  TierStep("heuristic", buildEnvelopeAttempt(data), FALSE, "ai",
           <<"Used heuristic extraction">>)

AiAttempt(attempt, attempted, failed) ==
  [attempt |-> attempt, attempted |-> attempted, failed |-> failed]

\* lines 281-314: the orchestrator after extractFromAI returned
Finish(ai, calls) ==
  LET h == [Ran(hist, "ai", ai.attempt) EXCEPT !.aiCalls = @ + calls]
      merged == MergeMissing(missingFields, ai.attempt)
      aiFallbackDetails == IF ai.attempted
                           THEN [present |-> TRUE, attempted |-> TRUE, failed |-> ai.failed]
                           ELSE NoAiFallback
  IN /\ pc = "ai"
     /\ pc' = "done"
     /\ hist' = h
     /\ IF ai.attempt.hasEnvelope
        THEN /\ warnings' = warnings \o <<"Used AI extraction">>
             /\ outcome' = Success("ai", ai.attempt.envelope, warnings')
             /\ UNCHANGED missingFields
        ELSE /\ missingFields' = merged
             /\ UNCHANGED warnings
             /\ outcome' =
                  IF Len(merged) > 0
                  THEN [ImportError("We could not find all required recipe fields on that page.",
                                    "IMPORT_MISSING_FIELDS", 422)
                          EXCEPT !.missing_fields = merged, !.ai_fallback = aiFallbackDetails]
                  ELSE [ImportError("We could not find a recipe on that page.",
                                    "IMPORT_NO_RECIPE_FOUND", 422)
                          EXCEPT !.ai_fallback = aiFallbackDetails]
     /\ UNCHANGED << fixedVars, hop, cur, resolved, total, chunksRead, page,
                     aiTextOverride, fhist, jobVars >>

\* the page reduces to no text only when the heuristic tier found no sections
MayBeTextless == {"ingredients", "steps"} \subseteq Range(missingFields)

\* an early return that reported an attempt
AiSkipped_reportsAttempt(textless) ==
  /\ textless => MayBeTextless
  /\ ~aiConfigured \/ (aiTextOverride = "none" /\ textless)
  /\ Finish(AiAttempt(EmptyAttempt, TRUE, TRUE), 0)

\* extractFromAI returns before any request: no client, or no text
AiSkipped(textless) ==
  /\ textless => MayBeTextless
  /\ ~aiConfigured \/ (aiTextOverride = "none" /\ textless)
  /\ Finish(AiAttempt(EmptyAttempt, FALSE, FALSE), 0)

\* the request throws, or its answer is empty, not JSON or not of the schema
AiFails(textless) ==
  /\ textless => MayBeTextless
  /\ aiConfigured /\ ~(aiTextOverride = "none" /\ textless)
  /\ Finish(AiAttempt(EmptyAttempt, TRUE, TRUE), 1)

\* the model answers with data
AiAnswers(textless, data) ==
  /\ textless => MayBeTextless
  /\ aiConfigured /\ ~(aiTextOverride = "none" /\ textless)
  /\ Finish(AiAttempt(buildEnvelopeAttempt(data), TRUE,
                      ~buildEnvelopeAttempt(data).hasEnvelope), 1)

(***************************************************************************)
(* The import job worker: processJob                                       *)
(***************************************************************************)
\* lines 131-156: read the row, mark it processing, start the extraction
ProcessJobStart ==
  /\ mode = "worker"
  /\ jpc = "idle"
  /\ pc = "idle"
  /\ nJobCalls < MaxJobCalls
  /\ nJobCalls' = nJobCalls + 1
  /\ jobRow' = job
  /\ job' = [job EXCEPT !.status = "processing"]
  /\ jpc' = "extract"
  /\ FreshPipeline(job.input_url)
  /\ CASE job.type = "url" -> pc' = "validate" /\ outcome' = NoOutcome
       [] job.type = "image" ->
            pc' = "done" /\ outcome' = PlainError("Image extraction not yet implemented")
       [] OTHER ->
            pc' = "done" /\ outcome' = PlainError("Invalid job type or missing input")
  /\ UNCHANGED << fixedVars, recipes >>

\* the call of extractFromUrl is over and nothing of it remains
ReleasePipeline ==
  /\ pc' = "idle"
  /\ outcome' = NoOutcome
  /\ FreshPipeline(GoodUrl)

\* lines 158-168: the recipe is created and the job completed
ProcessJobCompleted ==
  /\ jpc = "extract" /\ pc = "done"
  /\ outcome.kind = "success"
  /\ recipes' = recipes + 1
  /\ job' = [job EXCEPT !.status = "completed", !.result_recipe_id = recipes + 1]
  /\ jpc' = "idle"
  /\ ReleasePipeline
  /\ UNCHANGED << fixedVars, jobRow, nJobCalls >>

processJobCatch_noIncrement(row, errorMessage) ==
  IF row.retries < MAX_RETRIES
  THEN [status |-> "pending", retries |-> row.retries, error_message |-> errorMessage]
  ELSE [status |-> "failed", retries |-> row.retries, error_message |-> errorMessage]

\* lines 169-196: the update the catch block writes
processJobCatch(row, errorMessage) ==
  LET retries == row.retries + 1
  IN IF retries < MAX_RETRIES
     THEN [status |-> "pending", retries |-> retries, error_message |-> errorMessage]
     ELSE [status |-> "failed", retries |-> retries, error_message |-> errorMessage]

\* the message of the error the attempt threw
ErrorMessage(createFails) ==
  IF createFails THEN "Failed to create recipe" ELSE outcome.message

\* the attempt threw: in the extraction, or in recipeService.createRecipe
ProcessJobFailed(createFails) ==
  /\ jpc = "extract" /\ pc = "done"
  /\ createFails = (outcome.kind = "success")
  /\ LET update == processJobCatch(jobRow, ErrorMessage(createFails))
     IN job' = [job EXCEPT !.status = update.status, !.retries = update.retries,
                           !.error_message = update.error_message]
  /\ jpc' = "idle"
  /\ ReleasePipeline
  /\ UNCHANGED << fixedVars, jobRow, nJobCalls, recipes >>

(***************************************************************************)
(* Specification                                                           *)
(***************************************************************************)
Next ==
  \/ \E url \in URLs : ExtractFromUrl(url)
  \/ RouteInvalidBody
  \/ PreviewCheck
  \/ \E production \in BOOLEAN : RouteResponds(production)
  \/ \E url \in {GoodUrl}, readFails \in BOOLEAN, writeFails \in BOOLEAN :
       PreviewFromUrl(url, readFails, writeFails)
  \/ \E answer \in Inputs(DnsAnswers, {NoAnswer, DnsAnswer(FALSE, <<PublicV4>>)}) :
       ValidateUrl(answer)
  \/ FetchFails
  \/ \E status \in Statuses, location \in Locations, target \in URLs :
       mode = "preview" /\ FetchRedirect(status, location, target)
  \/ \E status \in Inputs(Statuses, {400}) : FetchNotOk(status)
  \/ \E status \in Inputs(Statuses, {200}),
        contentType \in Inputs(ContentTypes, {ContentType(TRUE, <<"text/html">>)}),
        contentLength \in Inputs(ContentLengths, {ContentLength(FALSE, FALSE, 0)}),
        hasBody \in Inputs(BOOLEAN, {FALSE}) :
       FetchOk(status, contentType, contentLength, hasBody)
  \/ \E size \in ChunkSizes : ReadChunk(size)
  \/ ReadDone
  \/ \E valid \in BOOLEAN : BeginExtract(valid)
  \/ \E found \in BOOLEAN, data \in PlainTextData : ShareTier(found, data)
  \/ \E nodes \in Inputs(NodeLists, {<<>>, <<GoodData>>}) : JsonLdTier(nodes)
  \/ \E kind \in Inputs({"throws", "empty", "text"}, {"empty"}),
        data \in Inputs(PlainTextData, {NoStepsData}) :
       ReadabilityTier(kind, data)
  \/ \E data \in Inputs(PlainTextData, SmallData) : HeuristicTier(data)
  \/ \E textless \in BOOLEAN : AiSkipped(textless)
  \/ \E textless \in BOOLEAN : AiFails(textless)
  \/ \E textless \in BOOLEAN, data \in Inputs(AiData, SmallData) : AiAnswers(textless, data)
  \/ ProcessJobStart
  \/ ProcessJobCompleted
  \/ \E createFails \in BOOLEAN : ProcessJobFailed(createFails)

Spec == Init /\ [][Next]_vars

(***************************************************************************)
(* Texts.  For the taxonomy normalizers a string is the sequence of its    *)
(* characters.                                                             *)
(***************************************************************************)
LowerLetters ==
  <<"a", "b", "c", "d", "e", "f", "g", "h", "i", "j", "k", "l", "m",
    "n", "o", "p", "q", "r", "s", "t", "u", "v", "w", "x", "y", "z">>

UpperLetters ==
  <<"A", "B", "C", "D", "E", "F", "G", "H", "I", "J", "K", "L", "M",
    "N", "O", "P", "Q", "R", "S", "T", "U", "V", "W", "X", "Y", "Z">>

DigitChars == {"0", "1", "2", "3", "4", "5", "6", "7", "8", "9"}

IsLower(c) == \E i \in 1..Len(LowerLetters) : LowerLetters[i] = c

IsUpper(c) == \E i \in 1..Len(UpperLetters) : UpperLetters[i] = c

\* the class \s
IsSpace(c) == c \in {" ", "\n", "\t"}

\* the class [a-z0-9] under the flag i
IsAlnum(c) == IsLower(c) \/ IsUpper(c) \/ c \in DigitChars

\* the class \w
IsWordChar(c) == IsAlnum(c) \/ c = "_"

\* the class [/_-]
IsSeparator(c) == c \in {"/", "_", "-"}

\* String.prototype.toLowerCase on one character
LowerOf(c) ==
  IF IsUpper(c) THEN LowerLetters[CHOOSE i \in 1..Len(UpperLetters) : UpperLetters[i] = c]
  ELSE c

toLowerCase(text) == [i \in 1..Len(text) |-> LowerOf(text[i])]

RECURSIVE TrimStart(_)
TrimStart(text) ==
  IF Len(text) > 0 /\ IsSpace(Head(text)) THEN TrimStart(Tail(text)) ELSE text

RECURSIVE TrimEnd(_)
TrimEnd(text) ==
  IF Len(text) > 0 /\ IsSpace(text[Len(text)])
  THEN TrimEnd(SubSeq(text, 1, Len(text) - 1))
  ELSE text

\* String.prototype.trim on a text
TrimText(text) == TrimEnd(TrimStart(text))

\* replace(/([a-z])([A-Z])/g, '$1 $2')
RECURSIVE SplitCamel(_)
SplitCamel(text) ==
  IF Len(text) < 2 THEN text
  ELSE IF IsLower(text[1]) /\ IsUpper(text[2])
  THEN <<text[1], " ">> \o SplitCamel(Tail(text))
  ELSE <<text[1]>> \o SplitCamel(Tail(text))

\* replace(/[/_-]+/g, ' '): every run of separators becomes one space
RECURSIVE ReplaceSeparators(_)
ReplaceSeparators(text) ==
  IF Len(text) = 0 THEN text
  ELSE IF IsSeparator(text[1])
  THEN IF Len(text) > 1 /\ IsSeparator(text[2])
       THEN ReplaceSeparators(Tail(text))
       ELSE <<" ">> \o ReplaceSeparators(Tail(text))
  ELSE <<text[1]>> \o ReplaceSeparators(Tail(text))

\* replace(/[^a-z0-9\s]/gi, ' ')
ReplaceSymbols(text) ==
  [i \in 1..Len(text) |-> IF IsAlnum(text[i]) \/ IsSpace(text[i]) THEN text[i] ELSE " "]

\* replace(/\s+/g, ' ')
RECURSIVE CollapseSpaces(_)
CollapseSpaces(text) ==
  IF Len(text) = 0 THEN text
  ELSE IF IsSpace(text[1])
  THEN IF Len(text) > 1 /\ IsSpace(text[2])
       THEN CollapseSpaces(Tail(text))
       ELSE <<" ">> \o CollapseSpaces(Tail(text))
  ELSE <<text[1]>> \o CollapseSpaces(Tail(text))

\* text has word at position i
HasAt(text, i, word) ==
  i >= 1 /\ i + Len(word) - 1 <= Len(text) /\ SubSeq(text, i, i + Len(word) - 1) = word

\* String.prototype.includes
IncludesText(text, word) == \E i \in 1..(Len(text) + 1) : HasAt(text, i, word)

\* the position after the white space that starts at i
RECURSIVE SkipSpaces(_, _)
SkipSpaces(text, i) ==
  IF i <= Len(text) /\ IsSpace(text[i]) THEN SkipSpaces(text, i + 1) ELSE i

\* the position after a match of parts[k] \s* parts[k+1] \s* ... that starts
\* at i, 0 when there is none
RECURSIVE MatchEnd(_, _, _, _)
MatchEnd(text, i, parts, k) ==
  IF ~HasAt(text, i, parts[k]) THEN 0
  ELSE IF k = Len(parts) THEN i + Len(parts[k])
  ELSE MatchEnd(text, SkipSpaces(text, i + Len(parts[k])), parts, k + 1)

\* \b holds between positions i - 1 and i
WordBoundary(text, i) ==
  LET before == i > 1 /\ IsWordChar(text[i - 1])
      after == i <= Len(text) /\ IsWordChar(text[i])
  IN before # after

\* one alternative of a pattern: words joined by \s*, between \b or not
Alt(parts, bounded) == [parts |-> parts, bounded |-> bounded]

\* RegExp.prototype.test for an alternation
TestPattern(alts, text) ==
  \E alt \in alts : \E i \in 1..(Len(text) + 1) :
    /\ MatchEnd(text, i, alt.parts, 1) > 0
    /\ alt.bounded =>
         WordBoundary(text, i) /\ WordBoundary(text, MatchEnd(text, i, alt.parts, 1))

\* split(/[,\n]/)
RECURSIVE SplitItems(_, _)
SplitItems(text, item) ==
  IF Len(text) = 0 THEN <<item>>
  ELSE IF text[1] \in {",", "\n"}
  THEN <<item>> \o SplitItems(Tail(text), <<>>)
  ELSE SplitItems(Tail(text), item \o <<text[1]>>)

NonEmptyText(item) == Len(item) > 0

\* splitToStrings on an array of strings
RECURSIVE splitToStrings(_)
splitToStrings(value) ==
  IF Len(value) = 0 THEN <<>>
  ELSE SelectSeq([i \in 1..Len(SplitItems(value[1], <<>>)) |->
                    TrimText(SplitItems(value[1], <<>>)[i])],
                 NonEmptyText)
       \o splitToStrings(Tail(value))

(***************************************************************************)
(* Taxonomy normalizers: recipe tags, cuisine and dietary labels.          *)
(***************************************************************************)
\* null; no normalizer returns the empty string
NullText == <<>>

MAX_TAXONOMY_CHARS == 50

\* truncate on a text
TruncateText(text, max) ==
  IF Len(text) <= max THEN text ELSE TrimText(SubSeq(text, 1, max))

\* the members of list that are in found, in the order of list
RECURSIVE CanonicalFilter(_, _)
CanonicalFilter(list, found) ==
  IF Len(list) = 0 THEN <<>>
  ELSE IF Head(list) \in found THEN <<Head(list)>> \o CanonicalFilter(Tail(list), found)
  ELSE CanonicalFilter(Tail(list), found)

\* what /^https?:\/\/(www\.)?schema\.org\// matches
SCHEMA_ORG_PREFIXES ==
  <<<<"h", "t", "t", "p", ":", "/", "/", "s", "c", "h", "e", "m", "a", ".", "o", "r", "g", "/">>,
    <<"h", "t", "t", "p", "s", ":", "/", "/", "s", "c", "h", "e", "m", "a", ".", "o", "r", "g", "/">>,
    <<"h", "t", "t", "p", ":", "/", "/", "w", "w", "w", ".", "s", "c", "h", "e", "m", "a", ".", "o", "r", "g", "/">>,
    <<"h", "t", "t", "p", "s", ":", "/", "/", "w", "w", "w", ".", "s", "c", "h", "e", "m", "a", ".", "o", "r", "g", "/">>>>

\* replace(/^https?:\/\/(www\.)?schema\.org\//i, '')
StripSchemaOrg(text) ==
  IF \E k \in 1..Len(SCHEMA_ORG_PREFIXES) : HasAt(toLowerCase(text), 1, SCHEMA_ORG_PREFIXES[k])
  THEN LET k == CHOOSE k \in 1..Len(SCHEMA_ORG_PREFIXES) :
                  HasAt(toLowerCase(text), 1, SCHEMA_ORG_PREFIXES[k])
       IN SubSeq(text, Len(SCHEMA_ORG_PREFIXES[k]) + 1, Len(text))
  ELSE text

CANONICAL_RECIPE_TAGS ==
  <<<<"b", "r", "e", "a", "k", "f", "a", "s", "t">>,
    <<"m", "e", "a", "l">>,
    <<"d", "e", "s", "s", "e", "r", "t">>,
    <<"s", "n", "a", "c", "k">>>>

TAG_PATTERNS ==
  <<[alts |-> {Alt(<<<<"b", "r", "e", "a", "k", "f", "a", "s", "t">>>>, FALSE),
               Alt(<<<<"b", "r", "u", "n", "c", "h">>>>, FALSE),
               Alt(<<<<"m", "o", "r", "n", "i", "n", "g">>>>, FALSE)},
      tag |-> <<"b", "r", "e", "a", "k", "f", "a", "s", "t">>],
     [alts |-> {Alt(<<<<"d", "e", "s", "s", "e", "r", "t">>>>, FALSE),
               Alt(<<<<"s", "w", "e", "e", "t">>>>, FALSE),
               Alt(<<<<"t", "r", "e", "a", "t">>>>, FALSE)},
      tag |-> <<"d", "e", "s", "s", "e", "r", "t">>],
     [alts |-> {Alt(<<<<"s", "n", "a", "c", "k">>>>, FALSE),
               Alt(<<<<"a", "p", "p", "e", "t", "i", "z", "e", "r">>>>, FALSE),
               Alt(<<<<"s", "t", "a", "r", "t", "e", "r">>>>, FALSE)},
      tag |-> <<"s", "n", "a", "c", "k">>],
     [alts |-> {Alt(<<<<"l", "u", "n", "c", "h">>>>, FALSE),
               Alt(<<<<"d", "i", "n", "n", "e", "r">>>>, FALSE),
               Alt(<<<<"s", "u", "p", "p", "e", "r">>>>, FALSE),
               Alt(<<<<"e", "n", "t", "r", "e", "e">>>>, FALSE),
               Alt(<<<<"m", "a", "i", "n">>, <<"c", "o", "u", "r", "s", "e">>>>, FALSE),
               Alt(<<<<"m", "a", "i", "n">>>>, FALSE),
               Alt(<<<<"m", "e", "a", "l">>>>, FALSE)},
      tag |-> <<"m", "e", "a", "l">>]>>

normalizeTagCandidate(value) ==
  TrimText(toLowerCase(CollapseSpaces(ReplaceSymbols(ReplaceSeparators(
    SplitCamel(TrimText(value)))))))

\* lines 49-54: the tag of the first pattern that matches, none when no
\* pattern does or the candidate is empty
TagsOf(item) ==
  LET normalized == normalizeTagCandidate(item)
      hits == {k \in 1..Len(TAG_PATTERNS) : TestPattern(TAG_PATTERNS[k].alts, normalized)}
  IN IF Len(normalized) = 0 \/ hits = {} THEN {}
     ELSE {TAG_PATTERNS[CHOOSE k \in hits : \A j \in hits : k <= j].tag}

normalizeRecipeTags(value) ==
  CanonicalFilter(CANONICAL_RECIPE_TAGS,
                  UNION {TagsOf(splitToStrings(value)[i]) : i \in 1..Len(splitToStrings(value))})

CANONICAL_CUISINES ==
  <<<<"a", "m", "e", "r", "i", "c", "a", "n">>,
    <<"m", "e", "x", "i", "c", "a", "n">>,
    <<"i", "t", "a", "l", "i", "a", "n">>,
    <<"c", "h", "i", "n", "e", "s", "e">>,
    <<"j", "a", "p", "a", "n", "e", "s", "e">>,
    <<"k", "o", "r", "e", "a", "n">>,
    <<"t", "h", "a", "i">>,
    <<"v", "i", "e", "t", "n", "a", "m", "e", "s", "e">>,
    <<"i", "n", "d", "i", "a", "n">>,
    <<"m", "e", "d", "i", "t", "e", "r", "r", "a", "n", "e", "a", "n">>,
    <<"m", "i", "d", "d", "l", "e", "_", "e", "a", "s", "t", "e", "r", "n">>,
    <<"f", "r", "e", "n", "c", "h">>,
    <<"c", "a", "r", "i", "b", "b", "e", "a", "n">>,
    <<"s", "o", "u", "l", "_", "f", "o", "o", "d">>>>

CUISINE_PATTERNS ==
  <<[alts |-> {Alt(<<<<"s", "o", "u", "l">>, <<"f", "o", "o", "d">>>>, FALSE)},
      cuisine |-> <<"s", "o", "u", "l", "_", "f", "o", "o", "d">>],
     [alts |-> {Alt(<<<<"m", "i", "d", "d", "l", "e">>, <<"e", "a", "s", "t", "e", "r", "n">>>>, FALSE),
               Alt(<<<<"m", "i", "d", "d", "l", "e">>, <<"e", "a", "s", "t">>>>, FALSE),
               Alt(<<<<"l", "e", "v", "a", "n", "t">>>>, FALSE)},
      cuisine |-> <<"m", "i", "d", "d", "l", "e", "_", "e", "a", "s", "t", "e", "r", "n">>],
     [alts |-> {Alt(<<<<"m", "e", "d", "i", "t", "e", "r", "r", "a", "n", "e", "a", "n">>>>, FALSE)},
      cuisine |-> <<"m", "e", "d", "i", "t", "e", "r", "r", "a", "n", "e", "a", "n">>],
     [alts |-> {Alt(<<<<"m", "e", "x", "i", "c", "a", "n">>>>, FALSE),
               Alt(<<<<"t", "e", "x">>, <<"m", "e", "x">>>>, FALSE)},
      cuisine |-> <<"m", "e", "x", "i", "c", "a", "n">>],
     [alts |-> {Alt(<<<<"i", "t", "a", "l", "i", "a", "n">>>>, FALSE)},
      cuisine |-> <<"i", "t", "a", "l", "i", "a", "n">>],
     [alts |-> {Alt(<<<<"c", "h", "i", "n", "e", "s", "e">>>>, FALSE)},
      cuisine |-> <<"c", "h", "i", "n", "e", "s", "e">>],
     [alts |-> {Alt(<<<<"j", "a", "p", "a", "n", "e", "s", "e">>>>, FALSE)},
      cuisine |-> <<"j", "a", "p", "a", "n", "e", "s", "e">>],
     [alts |-> {Alt(<<<<"k", "o", "r", "e", "a", "n">>>>, FALSE)},
      cuisine |-> <<"k", "o", "r", "e", "a", "n">>],
     [alts |-> {Alt(<<<<"t", "h", "a", "i">>>>, FALSE)},
      cuisine |-> <<"t", "h", "a", "i">>],
     [alts |-> {Alt(<<<<"v", "i", "e", "t", "n", "a", "m", "e", "s", "e">>>>, FALSE),
               Alt(<<<<"v", "i", "e", "t", "n", "a", "m">>>>, FALSE)},
      cuisine |-> <<"v", "i", "e", "t", "n", "a", "m", "e", "s", "e">>],
     [alts |-> {Alt(<<<<"i", "n", "d", "i", "a", "n">>>>, FALSE)},
      cuisine |-> <<"i", "n", "d", "i", "a", "n">>],
     [alts |-> {Alt(<<<<"f", "r", "e", "n", "c", "h">>>>, FALSE)},
      cuisine |-> <<"f", "r", "e", "n", "c", "h">>],
     [alts |-> {Alt(<<<<"c", "a", "r", "i", "b", "b", "e", "a", "n">>>>, FALSE),
               Alt(<<<<"j", "a", "m", "a", "i", "c", "a", "n">>>>, FALSE),
               Alt(<<<<"c", "u", "b", "a", "n">>>>, FALSE),
               Alt(<<<<"p", "u", "e", "r", "t", "o">>, <<"r", "i", "c", "a", "n">>>>, FALSE),
               Alt(<<<<"h", "a", "i", "t", "i", "a", "n">>>>, FALSE),
               Alt(<<<<"t", "r", "i", "n", "i", "d", "a", "d">>>>, FALSE),
               Alt(<<<<"d", "o", "m", "i", "n", "i", "c", "a", "n">>>>, FALSE),
               Alt(<<<<"b", "a", "r", "b", "a", "d", "i", "a", "n">>>>, FALSE)},
      cuisine |-> <<"c", "a", "r", "i", "b", "b", "e", "a", "n">>],
     [alts |-> {Alt(<<<<"a", "m", "e", "r", "i", "c", "a", "n">>>>, TRUE),
               Alt(<<<<"u", "n", "i", "t", "e", "d">>, <<"s", "t", "a", "t", "e", "s">>>>, FALSE),
               Alt(<<<<"u", "s", "a">>>>, TRUE),
               Alt(<<<<"u">>, <<"s">>>>, TRUE)},
      cuisine |-> <<"a", "m", "e", "r", "i", "c", "a", "n">>]>>

normalizeCuisineCandidate(value) ==
  TrimText(toLowerCase(CollapseSpaces(ReplaceSymbols(ReplaceSeparators(
    SplitCamel(StripSchemaOrg(TrimText(value))))))))

isExcludedAmerican(value) ==
  \/ IncludesText(value, <<"l", "a", "t", "i", "n", " ", "a", "m", "e", "r", "i", "c", "a", "n">>)
  \/ IncludesText(value, <<"s", "o", "u", "t", "h", " ", "a", "m", "e", "r", "i", "c", "a", "n">>)

\* a normalizer that passed on what it could not map
CuisineOf_passThrough(candidate) ==
  LET normalized == normalizeCuisineCandidate(candidate)
      hits == {k \in 1..Len(CUISINE_PATTERNS) :
                 TestPattern(CUISINE_PATTERNS[k].alts, normalized)}
  IN IF Len(normalized) = 0 \/ isExcludedAmerican(normalized) THEN NullText
     ELSE IF hits = {} THEN normalized
     ELSE CUISINE_PATTERNS[CHOOSE k \in hits : \A j \in hits : k <= j].cuisine

\* lines 69-77 for one candidate: the cuisine of the first pattern that
\* matches, null when the candidate is skipped or nothing matches
CuisineOf(candidate) ==
  LET normalized == normalizeCuisineCandidate(candidate)
      hits == {k \in 1..Len(CUISINE_PATTERNS) :
                 TestPattern(CUISINE_PATTERNS[k].alts, normalized)}
  IN IF Len(normalized) = 0 \/ isExcludedAmerican(normalized) \/ hits = {} THEN NullText
     ELSE CUISINE_PATTERNS[CHOOSE k \in hits : \A j \in hits : k <= j].cuisine

\* the first candidate that maps to a cuisine decides
RECURSIVE FirstCuisine(_)
FirstCuisine(candidates) ==
  IF Len(candidates) = 0 THEN NullText
  ELSE IF CuisineOf(Head(candidates)) # NullText THEN CuisineOf(Head(candidates))
  ELSE FirstCuisine(Tail(candidates))

normalizeCuisine(value) == FirstCuisine(splitToStrings(value))

CANONICAL_DIETARY_LABELS ==
  <<<<"v", "e", "g", "a", "n">>,
    <<"v", "e", "g", "e", "t", "a", "r", "i", "a", "n">>,
    <<"g", "l", "u", "t", "e", "n", "_", "f", "r", "e", "e">>,
    <<"d", "a", "i", "r", "y", "_", "f", "r", "e", "e">>,
    <<"n", "u", "t", "_", "f", "r", "e", "e">>,
    <<"s", "h", "e", "l", "l", "f", "i", "s", "h", "_", "f", "r", "e", "e">>,
    <<"k", "e", "t", "o", "_", "f", "r", "i", "e", "n", "d", "l", "y">>,
    <<"h", "i", "g", "h", "_", "p", "r", "o", "t", "e", "i", "n">>>>

NEGATED_PATTERNS ==
  <<<<"n", "o", "n", " ", "v", "e", "g">>,
    <<"n", "o", "n", "-", "v", "e", "g">>,
    <<"n", "o", "n", "v", "e", "g">>,
    <<"n", "o", "n", " ", "v", "e", "g", "e", "t", "a", "r", "i", "a", "n">>,
    <<"n", "o", "n", "-", "v", "e", "g", "e", "t", "a", "r", "i", "a", "n">>,
    <<"n", "o", "n", "v", "e", "g", "e", "t", "a", "r", "i", "a", "n">>,
    <<"n", "o", "t", " ", "v", "e", "g", "e", "t", "a", "r", "i", "a", "n">>,
    <<"n", "o", "n", " ", "v", "e", "g", "a", "n">>,
    <<"n", "o", "n", "-", "v", "e", "g", "a", "n">>,
    <<"n", "o", "n", "v", "e", "g", "a", "n">>,
    <<"n", "o", "t", " ", "v", "e", "g", "a", "n">>>>

\* the tests of normalizeDietaryLabel in the order of the source
DIETARY_RULES ==
  <<[all |-> {<<"v", "e", "g", "a", "n">>}, label |-> <<"v", "e", "g", "a", "n">>],
     [all |-> {<<"v", "e", "g", "e", "t", "a", "r", "i", "a", "n">>}, label |-> <<"v", "e", "g", "e", "t", "a", "r", "i", "a", "n">>],
     [all |-> {<<"g", "l", "u", "t", "e", "n">>, <<"f", "r", "e", "e">>}, label |-> <<"g", "l", "u", "t", "e", "n", "_", "f", "r", "e", "e">>],
     [all |-> {<<"g", "l", "u", "t", "e", "n", "f", "r", "e", "e">>}, label |-> <<"g", "l", "u", "t", "e", "n", "_", "f", "r", "e", "e">>],
     [all |-> {<<"d", "a", "i", "r", "y">>, <<"f", "r", "e", "e">>}, label |-> <<"d", "a", "i", "r", "y", "_", "f", "r", "e", "e">>],
     [all |-> {<<"d", "a", "i", "r", "y", "f", "r", "e", "e">>}, label |-> <<"d", "a", "i", "r", "y", "_", "f", "r", "e", "e">>],
     [all |-> {<<"l", "a", "c", "t", "o", "s", "e">>, <<"f", "r", "e", "e">>}, label |-> <<"d", "a", "i", "r", "y", "_", "f", "r", "e", "e">>],
     [all |-> {<<"n", "o", "n", "d", "a", "i", "r", "y">>}, label |-> <<"d", "a", "i", "r", "y", "_", "f", "r", "e", "e">>],
     [all |-> {<<"n", "o", "n", " ", "d", "a", "i", "r", "y">>}, label |-> <<"d", "a", "i", "r", "y", "_", "f", "r", "e", "e">>],
     [all |-> {<<"n", "u", "t">>, <<"f", "r", "e", "e">>}, label |-> <<"n", "u", "t", "_", "f", "r", "e", "e">>],
     [all |-> {<<"n", "u", "t", "f", "r", "e", "e">>}, label |-> <<"n", "u", "t", "_", "f", "r", "e", "e">>],
     [all |-> {<<"t", "r", "e", "e", " ", "n", "u", "t", " ", "f", "r", "e", "e">>}, label |-> <<"n", "u", "t", "_", "f", "r", "e", "e">>],
     [all |-> {<<"p", "e", "a", "n", "u", "t", " ", "f", "r", "e", "e">>}, label |-> <<"n", "u", "t", "_", "f", "r", "e", "e">>],
     [all |-> {<<"s", "h", "e", "l", "l", "f", "i", "s", "h">>, <<"f", "r", "e", "e">>}, label |-> <<"s", "h", "e", "l", "l", "f", "i", "s", "h", "_", "f", "r", "e", "e">>],
     [all |-> {<<"s", "h", "e", "l", "l", "f", "i", "s", "h", "f", "r", "e", "e">>}, label |-> <<"s", "h", "e", "l", "l", "f", "i", "s", "h", "_", "f", "r", "e", "e">>],
     [all |-> {<<"n", "o", " ", "s", "h", "e", "l", "l", "f", "i", "s", "h">>}, label |-> <<"s", "h", "e", "l", "l", "f", "i", "s", "h", "_", "f", "r", "e", "e">>],
     [all |-> {<<"k", "e", "t", "o">>}, label |-> <<"k", "e", "t", "o", "_", "f", "r", "i", "e", "n", "d", "l", "y">>],
     [all |-> {<<"k", "e", "t", "o", "g", "e", "n", "i", "c">>}, label |-> <<"k", "e", "t", "o", "_", "f", "r", "i", "e", "n", "d", "l", "y">>],
     [all |-> {<<"h", "i", "g", "h", " ", "p", "r", "o", "t", "e", "i", "n">>}, label |-> <<"h", "i", "g", "h", "_", "p", "r", "o", "t", "e", "i", "n">>],
     [all |-> {<<"h", "i", "g", "h", "p", "r", "o", "t", "e", "i", "n">>}, label |-> <<"h", "i", "g", "h", "_", "p", "r", "o", "t", "e", "i", "n">>],
     [all |-> {<<"p", "r", "o", "t", "e", "i", "n", " ", "r", "i", "c", "h">>}, label |-> <<"h", "i", "g", "h", "_", "p", "r", "o", "t", "e", "i", "n">>]>>

\* replace(/\bdiet\b/g, '')
RECURSIVE RemoveDiet(_, _)
RemoveDiet(text, i) ==
  IF i > Len(text) THEN <<>>
  ELSE IF /\ HasAt(text, i, <<"d", "i", "e", "t">>)
          /\ WordBoundary(text, i) /\ WordBoundary(text, i + 4)
  THEN RemoveDiet(text, i + 4)
  ELSE <<text[i]>> \o RemoveDiet(text, i + 1)

\* a candidate whose separators were left in place
normalizeDietaryCandidate_keepsSeparators(value) ==
  TrimText(CollapseSpaces(RemoveDiet(toLowerCase(CollapseSpaces(
    SplitCamel(StripSchemaOrg(TrimText(value))))), 1)))

normalizeDietaryCandidate(value) ==
  TrimText(CollapseSpaces(RemoveDiet(toLowerCase(CollapseSpaces(ReplaceSeparators(
    SplitCamel(StripSchemaOrg(TrimText(value)))))), 1)))

containsNegation(value) ==
  \E k \in 1..Len(NEGATED_PATTERNS) : IncludesText(value, NEGATED_PATTERNS[k])

normalizeDietaryLabel(value) ==
  LET normalized == normalizeDietaryCandidate(value)
      hits == {k \in 1..Len(DIETARY_RULES) :
                 \A word \in DIETARY_RULES[k].all : IncludesText(normalized, word)}
  IN IF Len(normalized) = 0 \/ containsNegation(normalized) \/ hits = {} THEN NullText
     ELSE DIETARY_RULES[CHOOSE k \in hits : \A j \in hits : k <= j].label

normalizeDietaryLabels(value) ==
  CanonicalFilter(CANONICAL_DIETARY_LABELS,
                  {normalizeDietaryLabel(splitToStrings(value)[i]) :
                     i \in 1..Len(splitToStrings(value))} \ {NullText})

\* sanitizeRecipeData, lines 1256-1258, as buildEnvelopeAttempt copies the
\* three fields into the envelope (lines 702-705)
SanitizeTaxonomy(kind, value) ==
  CASE kind = "tags" ->
         [i \in 1..Len(normalizeRecipeTags(value)) |->
            TruncateText(normalizeRecipeTags(value)[i], MAX_TAXONOMY_CHARS)]
    [] kind = "cuisine" -> normalizeCuisine(value)
    [] kind = "dietary_labels" ->
         [i \in 1..Len(normalizeDietaryLabels(value)) |->
            TruncateText(normalizeDietaryLabels(value)[i], MAX_TAXONOMY_CHARS)]

(***************************************************************************)
(* The normalizers on their own: each is applied to a value, sanitize-      *)
(* RecipeData builds the envelope's field of the value, and the normalizer *)
(* is applied again to its own result.                                     *)
(***************************************************************************)
MaxItems == 2

\* free-text tags as pages and the model write them
TagVariants ==
  {<<"B", "r", "e", "a", "k", "f", "a", "s", "t">>,
   <<"M", "a", "i", "n", "C", "o", "u", "r", "s", "e", ",", " ", "s", "w", "e", "e", "t", "_", "t", "r", "e", "a", "t">>,
   <<"p", "a", "l", "e", "o">>,
   <<"S", "i", "d", "e", " ", "D", "i", "s", "h">>,
   <<"b", "r", "u", "n", "c", "h">>,
   <<" ">>,
   <<"M", "a", "i", "n", " ", " ", "C", "o", "u", "r", "s", "e">>,
   <<"A", "p", "p", "e", "t", "i", "z", "e", "r", "s", " ", "&", " ", "S", "t", "a", "r", "t", "e", "r", "s">>}

\* free-text cuisines
CuisineVariants ==
  {<<"L", "a", "t", "i", "n", " ", "A", "m", "e", "r", "i", "c", "a", "n">>,
   <<"T", "e", "x", "-", "M", "e", "x">>,
   <<"h", "t", "t", "p", "s", ":", "/", "/", "s", "c", "h", "e", "m", "a", ".", "o", "r", "g", "/", "I", "t", "a", "l", "i", "a", "n", "C", "u", "i", "s", "i", "n", "e">>,
   <<"U", ".", "S", ".">>,
   <<"p", "a", "n", "a", "m", "e", "r", "i", "c", "a", "n">>,
   <<"f", "u", "s", "i", "o", "n", ",", " ", "t", "h", "a", "i">>,
   <<"S", "o", "u", "l", "F", "o", "o", "d">>,
   <<"M", "i", "d", "d", "l", "e", "-", "E", "a", "s", "t", "e", "r", "n">>}

\* free-text dietary labels
DietVariants ==
  {<<"h", "t", "t", "p", "s", ":", "/", "/", "s", "c", "h", "e", "m", "a", ".", "o", "r", "g", "/", "V", "e", "g", "a", "n", "D", "i", "e", "t">>,
   <<"G", "l", "u", "t", "e", "n", "F", "r", "e", "e", "D", "i", "e", "t">>,
   <<"n", "o", "n", "-", "v", "e", "g", "a", "n">>,
   <<"L", "o", "w", " ", "F", "a", "t", " ", "D", "i", "e", "t">>,
   <<"L", "a", "c", "t", "o", "s", "e", "-", "F", "r", "e", "e">>,
   <<"H", "i", "g", "h", "-", "P", "r", "o", "t", "e", "i", "n">>,
   <<"p", "a", "l", "e", "o">>}

\* the strings the longer arrays are made of
TagMix ==
  {<<"p", "a", "l", "e", "o">>,
   <<"b", "r", "u", "n", "c", "h">>,
   <<"s", "n", "a", "c", "k">>,
   <<"M", "a", "i", "n", "C", "o", "u", "r", "s", "e", ",", " ", "s", "w", "e", "e", "t", "_", "t", "r", "e", "a", "t">>}

CuisineMix ==
  {<<"f", "u", "s", "i", "o", "n", ",", " ", "t", "h", "a", "i">>,
   <<"L", "a", "t", "i", "n", " ", "A", "m", "e", "r", "i", "c", "a", "n">>,
   <<"s", "o", "u", "l", "_", "f", "o", "o", "d">>,
   <<"U", ".", "S", ".">>}

DietMix ==
  {<<"n", "o", "n", "-", "v", "e", "g", "a", "n">>,
   <<"h", "i", "g", "h", "_", "p", "r", "o", "t", "e", "i", "n">>,
   <<"G", "l", "u", "t", "e", "n", "F", "r", "e", "e", "D", "i", "e", "t">>,
   <<"L", "o", "w", " ", "F", "a", "t", " ", "D", "i", "e", "t">>}

NormKinds == {"tags", "cuisine", "dietary_labels"}

CanonicalList(kind) ==
  CASE kind = "tags" -> CANONICAL_RECIPE_TAGS
    [] kind = "cuisine" -> CANONICAL_CUISINES
    [] kind = "dietary_labels" -> CANONICAL_DIETARY_LABELS

Variants(kind) ==
  CASE kind = "tags" -> TagVariants
    [] kind = "cuisine" -> CuisineVariants
    [] kind = "dietary_labels" -> DietVariants

Mix(kind) ==
  CASE kind = "tags" -> TagMix
    [] kind = "cuisine" -> CuisineMix
    [] kind = "dietary_labels" -> DietMix

\* the values a normalizer is given: nothing, one string, or an array
NormValues(kind) ==
  {<<>>}
    \cup {<<text>> : text \in Range(CanonicalList(kind)) \cup Variants(kind)}
    \cup UNION {[1..n -> Mix(kind)] : n \in 2..MaxItems}

\* a normalizer's result as the value of a further call: null is no value,
\* a string is the array of that string
AsValue(kind, result) ==
  IF kind # "cuisine" THEN result
  ELSE IF result = NullText THEN <<>>
  ELSE <<result>>

Normalize(kind, value) ==
  CASE kind = "tags" -> normalizeRecipeTags(value)
    [] kind = "cuisine" -> normalizeCuisine(value)
    [] kind = "dietary_labels" -> normalizeDietaryLabels(value)

NormInit ==
  /\ PipelineInit
  /\ ~aiConfigured /\ mode = "preview"
  /\ norm \in {[NoNorm EXCEPT !.kind = kind, !.value = value, !.pc = "value"] :
                 kind \in NormKinds, value \in UNION {NormValues(k) : k \in NormKinds}}
  /\ norm.value \in NormValues(norm.kind)
  /\ LibIdle({"norm"})

NormUnchanged == UNCHANGED << mainVars, runs, miner, jsonld, aitext, wire, built, previews, lookup, store, plan >>

\* sanitizeRecipeData builds the envelope's field
SanitizeField ==
  /\ norm.pc = "value"
  /\ norm' = [norm EXCEPT !.field = SanitizeTaxonomy(norm.kind, norm.value),
                          !.pc = "sanitized"]
  /\ NormUnchanged

NormalizeOnce ==
  /\ norm.pc = "value"
  /\ norm' = [norm EXCEPT !.once = Normalize(norm.kind, norm.value), !.pc = "once"]
  /\ NormUnchanged

NormalizeTwice ==
  /\ norm.pc = "once"
  /\ norm' = [norm EXCEPT
                !.twice = Normalize(norm.kind, AsValue(norm.kind, norm.once)),
                !.pc = "twice"]
  /\ NormUnchanged

NormNext ==
  \/ SanitizeField
  \/ NormalizeOnce
  \/ NormalizeTwice

NormSpec == NormInit /\ [][NormNext]_vars

(***************************************************************************)
(* Overlapping calls of extractFromUrl.  A call gives way to others at its *)
(* awaits; the steps below are finer, one per tier.                        *)
(***************************************************************************)
NoData == Data(NullStr, <<>>, <<>>, TRUE)

\* what a fetched page holds for the tiers
Page(share, shareData, nodes, readability, heuristic) ==
  [share |-> share, shareData |-> shareData, nodes |-> nodes,
   readability |-> readability, heuristic |-> heuristic]

\* a page with a Recipe node, an article Readability reads, a page with
\* ingredients only, a page with nothing, a share page with a partial recipe
ConcPages ==
  { Page(FALSE, NoData, <<GoodData>>, NoData, NoData),
    Page(FALSE, NoData, <<>>, GoodData, GoodData),
    Page(FALSE, NoData, <<NoStepsData>>, NoStepsData, NoStepsData),
    Page(FALSE, NoData, <<>>, NoData, NoData),
    Page(TRUE, NoStepsData, <<>>, NoData, NoData) }

\* what extractFromAI returns: nothing attempted, a failure, or an answer
ConcAiAnswers ==
  { AiAttempt(EmptyAttempt, FALSE, FALSE),
    AiAttempt(EmptyAttempt, TRUE, TRUE),
    AiAttempt(buildEnvelopeAttempt(GoodData), TRUE, FALSE),
    AiAttempt(buildEnvelopeAttempt(NoStepsData), TRUE, TRUE) }

ConcFetchError == ImportError("We could not reach that URL.", "IMPORT_FETCH_FAILED", 502)

\* lines 222-278 for one tier, on the locals of the call
OrchTier(run, attempt, hasText, next, warning) ==
  LET override == IF hasText /\ run.pc = "chatgpt" THEN "share"
                  ELSE IF hasText /\ run.pc = "readability" /\ run.aiTextOverride = "none"
                  THEN "readability"
                  ELSE run.aiTextOverride
  IN IF attempt.hasEnvelope
     THEN [run EXCEPT !.aiTextOverride = override,
                      !.warnings = @ \o warning,
                      !.outcome = Success(run.pc, attempt.envelope, run.warnings \o warning),
                      !.pc = "done"]
     ELSE [run EXCEPT !.aiTextOverride = override,
                      !.missingFields = MergeMissing(@, attempt),
                      !.pc = next]

\* the tier the call is at, applied to the page it fetched
OrchStep(run) ==
  CASE run.pc = "chatgpt" ->
         OrchTier(run, buildEnvelopeAttempt(run.content.shareData), TRUE, "jsonld", <<>>)
    [] run.pc = "jsonld" ->
         OrchTier(run, extractFromJsonLd(run.content.nodes), FALSE, "readability", <<>>)
    [] run.pc = "readability" ->
         OrchTier(run, buildEnvelopeAttempt(run.content.readability),
                  run.content.readability # NoData, "heuristic",
                  <<"Used readability extraction">>)
    [] run.pc = "heuristic" ->
         OrchTier(run, buildEnvelopeAttempt(run.content.heuristic), FALSE, "ai",
                  <<"Used heuristic extraction">>)

\* lines 280-314 on the locals of the call
OrchFinish(run, ai) ==
  LET merged == MergeMissing(run.missingFields, ai.attempt)
      aiFallbackDetails == IF ai.attempted
                           THEN [present |-> TRUE, attempted |-> TRUE, failed |-> ai.failed]
                           ELSE NoAiFallback
  IN IF ai.attempt.hasEnvelope
     THEN [run EXCEPT !.ai = ai, !.pc = "done",
                      !.warnings = @ \o <<"Used AI extraction">>,
                      !.outcome = Success("ai", ai.attempt.envelope,
                                          run.warnings \o <<"Used AI extraction">>)]
     ELSE [run EXCEPT
             !.ai = ai, !.pc = "done", !.missingFields = merged,
             !.outcome =
               IF Len(merged) > 0
               THEN [ImportError("We could not find all required recipe fields on that page.",
                                 "IMPORT_MISSING_FIELDS", 422)
                       EXCEPT !.missing_fields = merged, !.ai_fallback = aiFallbackDetails]
               ELSE [ImportError("We could not find a recipe on that page.",
                                 "IMPORT_NO_RECIPE_FOUND", 422)
                       EXCEPT !.ai_fallback = aiFallbackDetails]]

\* the call after fetchWithGuards returned content
Fetched(content) ==
  [NoRun EXCEPT !.fetched = TRUE, !.content = content,
                !.pc = IF content.share THEN "chatgpt" ELSE "jsonld"]

InFlight(run) == run.pc \notin {"idle", "done"}

\* a module-level warnings array, which every call would push to
SetRun_sharedWarnings(p, run) ==
  [q \in Execs |-> IF q = p THEN [run EXCEPT !.overlapped = @ \/ \E o \in Execs \ {p} : InFlight(runs[o])]
                   ELSE [runs[q] EXCEPT !.warnings = run.warnings]]

\* a step of call p writes the locals of call p: warnings, missingFields and
\* aiTextOverride are declared inside extractFromUrl
SetRun(p, run) ==
  [runs EXCEPT ![p] = [run EXCEPT !.overlapped = @ \/ \E o \in Execs \ {p} : InFlight(runs[o])]]

ConcUnchanged == UNCHANGED << mainVars, norm, miner, jsonld, aitext, wire, built, previews, lookup, store, plan >>

ConcStart(p) ==
  /\ runs[p].pc = "idle"
  /\ runs' = SetRun(p, [runs[p] EXCEPT !.pc = "fetch"])
  /\ ConcUnchanged

\* fetchWithGuards throws and extractFromUrl with it
ConcFetchThrows(p) ==
  /\ runs[p].pc = "fetch"
  /\ runs' = SetRun(p, [runs[p] EXCEPT !.pc = "done", !.outcome = ConcFetchError])
  /\ ConcUnchanged

ConcFetchReturns(p, content) ==
  /\ runs[p].pc = "fetch"
  /\ runs' = SetRun(p, [Fetched(content) EXCEPT !.overlapped = runs[p].overlapped])
  /\ ConcUnchanged

ConcTier(p) ==
  /\ runs[p].pc \in {"chatgpt", "jsonld", "readability", "heuristic"}
  /\ runs' = SetRun(p, OrchStep(runs[p]))
  /\ ConcUnchanged

ConcAiReturns(p, ai) ==
  /\ runs[p].pc = "ai"
  /\ ai.attempted => aiConfigured
  /\ runs' = SetRun(p, OrchFinish(runs[p], ai))
  /\ ConcUnchanged

ConcInit ==
  /\ PipelineInit
  /\ mode = "preview"
  /\ LibIdle({"runs"})
  /\ runs = [p \in Execs |-> NoRun]

ConcNext ==
  \E p \in Execs :
    \/ ConcStart(p)
    \/ ConcFetchThrows(p)
    \/ \E content \in ConcPages : ConcFetchReturns(p, content)
    \/ ConcTier(p)
    \/ \E ai \in ConcAiAnswers : ConcAiReturns(p, ai)

ConcSpec == ConcInit /\ [][ConcNext]_vars

(***************************************************************************)
(* The section miner: extractFromPlainText and what it calls               *)
(***************************************************************************)
\* split(/\r?\n/)
RECURSIVE SplitLines(_, _)
SplitLines(text, line) ==
  IF Len(text) = 0 THEN <<line>>
  ELSE IF text[1] = "\n" THEN <<line>> \o SplitLines(Tail(text), <<>>)
  ELSE IF text[1] = "\r" /\ Len(text) > 1 /\ text[2] = "\n"
  THEN <<line>> \o SplitLines(Tail(Tail(text)), <<>>)
  ELSE SplitLines(Tail(text), line \o <<text[1]>>)

\* line 592: the trimmed lines that are not empty
LinesOf(text) ==
  SelectSeq([i \in 1..Len(SplitLines(text, <<>>)) |-> TrimText(SplitLines(text, <<>>)[i])],
            NonEmptyText)

RECURSIVE DropHashes(_)
DropHashes(text) ==
  IF Len(text) > 0 /\ Head(text) = "#" THEN DropHashes(Tail(text)) ELSE text

\* replace(/^[*-]\s*/, '')
DropMarker(text) ==
  IF Len(text) > 0 /\ Head(text) \in {"*", "-"} THEN TrimStart(Tail(text)) ELSE text

RECURSIVE DropEndHashes(_)
DropEndHashes(text) ==
  IF Len(text) > 0 /\ text[Len(text)] = "#"
  THEN DropEndHashes(SubSeq(text, 1, Len(text) - 1))
  ELSE text

\* replace(/\s*#+\s*$/, '')
DropTrailingHashes(text) ==
  IF Len(TrimEnd(text)) > 0 /\ TrimEnd(text)[Len(TrimEnd(text))] = "#"
  THEN TrimEnd(DropEndHashes(TrimEnd(text)))
  ELSE text

\* null when nothing is left
cleanupTitleLine(line) == TrimText(DropMarker(DropTrailingHashes(line)))

\* what /^#+\s*(.+)$/ captures, nothing when the line does not match
HeadingText(line) ==
  IF Len(line) > 0 /\ Head(line) = "#" THEN TrimStart(DropHashes(line)) ELSE <<>>

RECURSIVE FirstHeading(_)
FirstHeading(lines) ==
  IF Len(lines) = 0 THEN NullText
  ELSE IF Len(HeadingText(Head(lines))) > 0 /\ Len(cleanupTitleLine(HeadingText(Head(lines)))) > 0
  THEN cleanupTitleLine(HeadingText(Head(lines)))
  ELSE FirstHeading(Tail(lines))

\* line 1159
TITLE_SKIPPED ==
  {<<"i", "n", "g", "r", "e", "d", "i", "e", "n", "t", "s">>,
   <<"s", "t", "e", "p", "s">>,
   <<"i", "n", "s", "t", "r", "u", "c", "t", "i", "o", "n", "s">>}

RECURSIVE FirstPlainLine(_)
FirstPlainLine(lines) ==
  IF Len(lines) = 0 THEN NullText
  ELSE IF /\ Len(cleanupTitleLine(Head(lines))) > 0
          /\ toLowerCase(cleanupTitleLine(Head(lines))) \notin TITLE_SKIPPED
  THEN cleanupTitleLine(Head(lines))
  ELSE FirstPlainLine(Tail(lines))

extractTitleFromLines(lines) ==
  IF FirstHeading(lines) # NullText THEN FirstHeading(lines) ELSE FirstPlainLine(lines)

\* replace(/:$/, '')
DropColon(text) ==
  IF Len(text) > 0 /\ text[Len(text)] = ":" THEN SubSeq(text, 1, Len(text) - 1) ELSE text

\* replace(/^#+\s*/, '')
DropHeadingMarks(text) ==
  IF Len(text) > 0 /\ Head(text) = "#" THEN TrimStart(DropHashes(text)) ELSE text

normalizeSectionHeading(line) ==
  TrimText(DropColon(DropMarker(DropHeadingMarks(toLowerCase(line)))))

\* stripBullet on a text; the glyph U+2022 is in none of the texts
StripBulletText(value) ==
  TrimText(IF Len(value) > 0 /\ Head(value) \in {"-", "*"} THEN TrimStart(Tail(value)) ELSE value)

\* line 594
INGREDIENT_LABELS ==
  {<<"i", "n", "g", "r", "e", "d", "i", "e", "n", "t", "s">>}

\* line 595
STEP_LABELS ==
  {<<"i", "n", "s", "t", "r", "u", "c", "t", "i", "o", "n", "s">>,
   <<"d", "i", "r", "e", "c", "t", "i", "o", "n", "s">>,
   <<"m", "e", "t", "h", "o", "d">>,
   <<"p", "r", "e", "p", "a", "r", "a", "t", "i", "o", "n">>,
   <<"s", "t", "e", "p", "s">>}

\* line 1319
STOP_WORDS ==
  {<<"n", "u", "t", "r", "i", "t", "i", "o", "n">>,
   <<"n", "o", "t", "e", "s">>,
   <<"t", "i", "p", "s">>,
   <<"s", "t", "o", "r", "a", "g", "e">>,
   <<"v", "i", "d", "e", "o">>}

\* lines 1322-1336: the line is a label, or starts with a label and a space
IsLabelLine(line, labelSet) ==
  \/ normalizeSectionHeading(line) \in labelSet
  \/ \E label \in labelSet : HasAt(normalizeSectionHeading(line), 1, label \o <<" ">>)

\* the index after the first label line, 0 when there is none
RECURSIVE StartIndex(_, _, _)
StartIndex(lines, labelSet, i) ==
  IF i > Len(lines) THEN 0
  ELSE IF IsLabelLine(lines[i], labelSet) THEN i + 1
  ELSE StartIndex(lines, labelSet, i + 1)

\* lines 1343-1357: the loop that collects the items
RECURSIVE Collect(_, _, _, _)
Collect(lines, labelSet, i, results) ==
  IF i > Len(lines) THEN results
  ELSE IF normalizeSectionHeading(lines[i]) \in labelSet \cup STOP_WORDS THEN results
  ELSE IF Len(normalizeSectionHeading(lines[i])) = 0
  THEN IF Len(results) > 0 THEN results ELSE Collect(lines, labelSet, i + 1, results)
  ELSE Collect(lines, labelSet, i + 1, Append(results, StripBulletText(lines[i])))

extractSection(lines, labelSet) ==
  IF StartIndex(lines, labelSet, 1) = 0 THEN <<>>
  ELSE Collect(lines, labelSet, StartIndex(lines, labelSet, 1), <<>>)

\* lines 592-595 of extractFromPlainText without a title hint
MineSections(text) ==
  [title |-> extractTitleFromLines(LinesOf(text)),
   ingredients |-> extractSection(LinesOf(text), INGREDIENT_LABELS),
   steps |-> extractSection(LinesOf(text), STEP_LABELS)]

MaxLines == 3

\* the lines the texts are made of
MinerLines ==
  {<<>>,
   <<"I", "n", "g", "r", "e", "d", "i", "e", "n", "t", "s">>,
   <<"o", "n", "i", "o", "n">>,
   <<"I", "n", "s", "t", "r", "u", "c", "t", "i", "o", "n", "s">>,
   <<"C", "h", "o", "p", ".">>,
   <<"N", "o", "t", "e", "s">>}

GrandmaText ==
  <<"#", " ", "G", "r", "a", "n", "d", "m", "a", "'", "s", " ", "S", "t", "e", "w", "\n",
    "\n",
    "I", "n", "g", "r", "e", "d", "i", "e", "n", "t", "s", "\n",
    "o", "n", "i", "o", "n", "\n",
    "c", "a", "r", "r", "o", "t", "\n",
    "\n",
    "I", "n", "s", "t", "r", "u", "c", "t", "i", "o", "n", "s", "\n",
    "C", "h", "o", "p", ".", "\n",
    "S", "i", "m", "m", "e", "r", ".">>

BulletedText ==
  <<"#", "#", " ", "S", "a", "l", "a", "d", "\n",
    "I", "n", "g", "r", "e", "d", "i", "e", "n", "t", "s", ":", "\n",
    "-", " ", "o", "n", "i", "o", "n", "\n",
    "*", " ", "c", "a", "r", "r", "o", "t", "\n",
    "T", "i", "p", "s", "\n",
    "s", "e", "r", "v", "e", " ", "c", "o", "l", "d">>

\* a heading, a blank line, an item, a blank line and one more line
SpacedText ==
  <<"I", "n", "g", "r", "e", "d", "i", "e", "n", "t", "s", "\n",
    "\n",
    "o", "n", "i", "o", "n", "\n",
    "\n",
    "C", "h", "o", "p", ".">>

RECURSIVE JoinLines(_)
JoinLines(lines) ==
  IF Len(lines) = 0 THEN <<>>
  ELSE IF Len(lines) = 1 THEN lines[1]
  ELSE lines[1] \o <<"\n">> \o JoinLines(Tail(lines))

MinerTexts ==
  {GrandmaText, BulletedText, SpacedText}
    \cup {JoinLines(lines) : lines \in UNION {[1..n -> MinerLines] : n \in 0..MaxLines}}

MinerInit ==
  /\ PipelineInit
  /\ ~aiConfigured /\ mode = "preview"
  /\ LibIdle({"miner"})
  /\ miner \in {[NoMiner EXCEPT !.pc = "text", !.text = text] : text \in MinerTexts}

ExtractFromPlainText ==
  /\ miner.pc = "text"
  /\ miner' = [miner EXCEPT !.pc = "mined",
                            !.title = MineSections(miner.text).title,
                            !.ingredients = MineSections(miner.text).ingredients,
                            !.steps = MineSections(miner.text).steps]
  /\ UNCHANGED << mainVars, norm, runs, jsonld, aitext, wire, built, previews, lookup, store, plan >>

MinerNext == ExtractFromPlainText

MinerSpec == MinerInit /\ [][MinerNext]_vars

(***************************************************************************)
(* extractFromJsonLd on its own: the JSON-LD blocks of a document in       *)
(* document order.                                                         *)
(***************************************************************************)
MaxBlocks == 3

\* a block: a script that does not parse, a node of another type, or a
\* Recipe node with its data
Block(kind, data) == [kind |-> kind, data |-> data]

NoNameData == Data(NullStr, <<BulletText, LongText>>, <<BulletText, LongText>>, TRUE)

InvalidData == Data(Normal, <<BulletText, LongText>>, <<BulletText, LongText>>, FALSE)

Blocks ==
  {Block("unparsable", NoData), Block("other", NoData)}
    \cup {Block("recipe", data) : data \in {GoodData, NoStepsData, NoNameData, InvalidData}}

Documents == UNION {[1..n -> Blocks] : n \in 0..MaxBlocks}

\* lines 486-506: the data of the Recipe nodes, in document order; scripts
\* that do not parse and nodes of other types add nothing
RECURSIVE RecipesOf(_)
RecipesOf(blocks) ==
  IF Len(blocks) = 0 THEN <<>>
  ELSE IF Head(blocks).kind = "recipe" THEN <<Head(blocks).data>> \o RecipesOf(Tail(blocks))
  ELSE RecipesOf(Tail(blocks))

JsonLdInit ==
  /\ PipelineInit
  /\ ~aiConfigured /\ mode = "preview"
  /\ LibIdle({"jsonld"})
  /\ jsonld \in {[NoJsonLd EXCEPT !.pc = "document", !.blocks = blocks] : blocks \in Documents}

ExtractFromJsonLd ==
  /\ jsonld.pc = "document"
  /\ jsonld' = [jsonld EXCEPT !.pc = "returned",
                              !.attempt = extractFromJsonLd(RecipesOf(jsonld.blocks))]
  /\ UNCHANGED << mainVars, norm, runs, miner, aitext, wire, built, previews, lookup, store, plan >>

JsonLdNext == ExtractFromJsonLd

JsonLdSpec == JsonLdInit /\ [][JsonLdNext]_vars

(***************************************************************************)
(* The text of the model call (extractFromUrl lines 220-254 and 280,       *)
(* extractFromAI lines 333-349, buildTextForAI lines 1362-1366).  A text   *)
(* is represented by its length; 0 is the empty or missing text.           *)
(***************************************************************************)
MAX_AI_TEXT_CHARS == 20000

\* the lengths a text recovered from one page can have: nothing, short, around
\* the cap, and as long as the largest body fetchWithGuards accepts
AiTextLens ==
  {0, 1, MAX_AI_TEXT_CHARS - 1, MAX_AI_TEXT_CHARS, MAX_AI_TEXT_CHARS + 1, MAX_HTML_BYTES}

\* lines 1362-1366: the plain text of the HTML, sliced to MAX_AI_TEXT_CHARS
buildTextForAI(htmlText) ==
  IF htmlText = 0 THEN 0
  ELSE IF htmlText > MAX_AI_TEXT_CHARS THEN MAX_AI_TEXT_CHARS ELSE htmlText

\* line 333: const text = textOverride ?? buildTextForAI(html)
PromptText(override, htmlText) ==
  IF override.set THEN override.len ELSE buildTextForAI(htmlText)

AiTextInit ==
  /\ PipelineInit
  /\ mode = "preview"
  /\ LibIdle({"aitext"})
  /\ aitext \in
       {[NoAiText EXCEPT !.pc = "chatgpt", !.share = share, !.shareText = st,
                         !.readabilityText = rt, !.htmlText = ht] :
          share \in BOOLEAN, st \in AiTextLens, rt \in AiTextLens, ht \in AiTextLens}

AiTextUnchanged == UNCHANGED << mainVars, norm, runs, miner, jsonld, wire, built, previews, lookup, store, plan >>

\* lines 222-226: on a share URL the candidate text of the share tier, when
\* there is one, becomes the override
AiTextShareTier ==
  /\ aitext.pc = "chatgpt"
  /\ aitext' = [aitext EXCEPT
       !.pc = "readability",
       !.override = IF aitext.share /\ aitext.shareText > 0
                    THEN [set |-> TRUE, len |-> aitext.shareText] ELSE @]
  /\ AiTextUnchanged

\* lines 251-254: the Readability text becomes the override unless the share
\* tier already set one
AiTextReadabilityTier ==
  /\ aitext.pc = "readability"
  /\ aitext' = [aitext EXCEPT
       !.pc = "ai",
       !.override = IF aitext.readabilityText > 0 /\ ~aitext.override.set
                    THEN [set |-> TRUE, len |-> aitext.readabilityText] ELSE @]
  /\ AiTextUnchanged

\* lines 324-349 and 280: without a client or without text nothing is sent;
\* otherwise the text goes into the prompt as it is
AiTextPrompt ==
  /\ aitext.pc = "ai"
  /\ LET text == PromptText(aitext.override, aitext.htmlText)
     IN aitext' = [aitext EXCEPT
          !.pc = "done",
          !.attempted = aiConfigured /\ text > 0,
          !.sent = IF aiConfigured /\ text > 0 THEN text ELSE 0]
  /\ AiTextUnchanged

AiTextNext == AiTextShareTier \/ AiTextReadabilityTier \/ AiTextPrompt

AiTextSpec == AiTextInit /\ [][AiTextNext]_vars

(***************************************************************************)
(* The abort timer of a hop (fetchWithGuards lines 752-806,                *)
(* readBodyWithLimit lines 881-904).  The server answers `redirects` hops  *)
(* with a redirect and then sends a body of `chunks` chunks, and may stop  *)
(* sending for ever before the headers of hop stall.hop or after           *)
(* stall.chunk chunks of the body.  The timer fires when 8 seconds have    *)
(* passed, which can happen whenever it is armed.                          *)
(***************************************************************************)
WireStalls ==
  {[at |-> "none", hop |-> 0, chunk |-> 0]}
    \cup {[at |-> "headers", hop |-> h, chunk |-> 0] : h \in 0..MAX_REDIRECTS}
    \cup {[at |-> "body", hop |-> 0, chunk |-> c] : c \in 0..MaxChunks}

WireInit ==
  /\ PipelineInit
  /\ ~aiConfigured /\ mode = "preview"
  /\ LibIdle({"wire"})
  /\ wire \in
       {[NoWire EXCEPT !.pc = "hop", !.redirects = r, !.chunks = c, !.stall = st] :
          r \in 0..(MAX_REDIRECTS + 1), c \in 0..MaxChunks, st \in WireStalls}

WireUnchanged == UNCHANGED << mainVars, norm, runs, miner, jsonld, aitext, built, previews, lookup, store, plan >>

\* the server keeps silent before the headers of this hop
StalledBeforeHeaders(w) == w.stall.at = "headers" /\ w.stall.hop = w.i

\* the server keeps silent after w.read chunks of the body
StalledInBody(w) == w.stall.at = "body" /\ w.stall.chunk <= w.read

\* lines 752-765: a new controller and timer, then the request is sent
WireRequest ==
  /\ wire.pc = "hop" /\ wire.i <= MAX_REDIRECTS
  /\ wire' = [wire EXCEPT !.pc = "requesting", !.timer = TRUE]
  /\ WireUnchanged

\* line 808: the loop ended without a page
WireTooManyRedirects ==
  /\ wire.pc = "hop" /\ wire.i > MAX_REDIRECTS
  /\ wire' = [wire EXCEPT !.pc = "thrown", !.code = "IMPORT_TOO_MANY_REDIRECTS"]
  /\ WireUnchanged

\* lines 758-806: fetch resolves with the headers, finally clears the timer
\* (line 773); a redirect starts the next hop, any other response goes to
\* readBodyWithLimit
WireHeaders ==
  /\ wire.pc = "requesting" /\ ~StalledBeforeHeaders(wire)
  /\ wire' = [wire EXCEPT
       !.timer = FALSE,
       !.pc = IF wire.i < wire.redirects THEN "hop" ELSE "reading",
       !.i = IF wire.i < wire.redirects THEN @ + 1 ELSE @]
  /\ WireUnchanged

\* line 754: the timer fires and aborts the controller; the pending fetch or
\* read rejects (lines 766-772 for the fetch)
WireAbort ==
  /\ wire.timer /\ wire.pc \in {"requesting", "reading"}
  /\ wire' = [wire EXCEPT !.pc = "thrown", !.timer = FALSE, !.code = "IMPORT_FETCH_FAILED"]
  /\ WireUnchanged

\* lines 895-904: reader.read() resolves with the next chunk
WireRead ==
  /\ wire.pc = "reading" /\ wire.read < wire.chunks /\ ~StalledInBody(wire)
  /\ wire' = [wire EXCEPT !.read = @ + 1]
  /\ WireUnchanged

\* lines 896-898 and 904: reader.read() resolves with done
WireEnd ==
  /\ wire.pc = "reading" /\ wire.read = wire.chunks /\ ~StalledInBody(wire)
  /\ wire' = [wire EXCEPT !.pc = "returned"]
  /\ WireUnchanged

WireNext ==
  \/ WireRequest \/ WireTooManyRedirects \/ WireHeaders
  \/ WireAbort \/ WireRead \/ WireEnd

WireSpec == WireInit /\ [][WireNext]_vars

\* the timer fires once its time has passed, and the runtime delivers what
\* the server sends
WireFairSpec == WireSpec /\ WF_vars(WireNext)

(***************************************************************************)
(* One tier result on its own: buildEnvelopeAttempt (lines 685-733) on the *)
(* data a tier extracted, and the orchestrator's merge of the attempt into *)
(* the missing fields it has so far (lines 267-278).                       *)
(***************************************************************************)
\* what earlier tiers may have left in missingFields
MissingBefore == {<<>>, <<"title">>, <<"steps">>, <<"title", "ingredients">>}

BuiltInit ==
  /\ PipelineInit
  /\ ~aiConfigured /\ mode = "preview"
  /\ LibIdle({"built"})
  /\ built \in {[NoBuilt EXCEPT !.pc = "data", !.data = data, !.before = before] :
                  data \in AiData, before \in MissingBefore}

\* lines 267-278: the attempt of the tier, then either the early return or
\* missing_fields.forEach(add)
BuildAndMerge ==
  /\ built.pc = "data"
  /\ built' = [built EXCEPT
       !.pc = IF buildEnvelopeAttempt(built.data).hasEnvelope THEN "returned" ELSE "merged",
       !.attempt = buildEnvelopeAttempt(built.data),
       !.after = IF buildEnvelopeAttempt(built.data).hasEnvelope THEN built.before
                 ELSE MergeMissing(built.before, buildEnvelopeAttempt(built.data))]
  /\ UNCHANGED << mainVars, norm, runs, miner, jsonld, aitext, wire, previews, lookup, store, plan >>

BuiltNext == BuildAndMerge

BuiltSpec == BuiltInit /\ [][BuiltNext]_vars

(***************************************************************************)
(* Concurrent previewFromUrl calls of one user on one day (lines 199-207,  *)
(* 421-482).  Each await of a Supabase request is a point where another    *)
(* call can run; the row is the user's usage_counters row of today, which  *)
(* UNIQUE(user_id, date) keeps single.                                     *)
(***************************************************************************)
MaxCallers == 3

Callers == 1..MaxCallers

\* the counter when the calls arrive; it counts the calls served before
CallRows ==
  {NoUsageRow}
    \cup {UsageRow(TRUE, n) : n \in {0, DAILY_IMPORT_LIMIT - 2, DAILY_IMPORT_LIMIT - 1,
                                     DAILY_IMPORT_LIMIT}}

CallsInit ==
  /\ PipelineInit
  /\ ~aiConfigured /\ mode = "preview"
  /\ LibIdle({"previews"})
  /\ previews \in {[NoPreviews EXCEPT !.row = row, !.passed = ImportsCount(row),
                                !.proc = [p \in Callers |-> [pc |-> "check", existing |-> NoUsageRow]]] :
                  row \in CallRows}

CallsUnchanged == UNCHANGED << mainVars, norm, runs, miner, jsonld, aitext, wire, built, lookup, store, plan >>

\* lines 200-203 and 421-432: the select of checkDailyImportLimit returns
CallCheck(p) ==
  /\ previews.proc[p].pc = "check"
  /\ previews' = [previews EXCEPT
       !.proc[p].pc = IF checkDailyImportLimit(previews.row) THEN "select" ELSE "rejected"]
  /\ CallsUnchanged

\* lines 437-447: the select of incrementImportCounter returns
CallSelect(p) ==
  /\ previews.proc[p].pc = "select"
  /\ previews' = [previews EXCEPT !.proc[p].pc = "write", !.proc[p].existing = previews.row]
  /\ CallsUnchanged

\* lines 449-481 and 206: the insert (refused when a row exists by now) or
\* the update with the count read before; then extractFromUrl is called
CallWrite(p) ==
  /\ previews.proc[p].pc = "write"
  /\ previews' = [previews EXCEPT
       !.row = IF ~previews.proc[p].existing.exists
               THEN IF previews.row.exists THEN previews.row ELSE UsageRow(TRUE, 1)
               ELSE UsageRow(TRUE, previews.proc[p].existing.imports_count + 1),
       !.proc[p].pc = "extracting",
       !.passed = @ + 1]
  /\ CallsUnchanged

CallsNext == \E p \in Callers : CallCheck(p) \/ CallSelect(p) \/ CallWrite(p)

CallsSpec == CallsInit /\ [][CallsNext]_vars

(***************************************************************************)
(* Name resolution on one hop (fetchWithGuards lines 749-765, validateUrl  *)
(* lines 811-860).  validateUrl resolves the host name with dns.lookup and *)
(* returns the URL; fetch is then given the URL text and resolves the name *)
(* again.  The answers of the two lookups are independent inputs.          *)
(***************************************************************************)
LookupHosts == {Host("name", PublicV4), Host("ip4", PublicV4), Host("ip4", V4(10, 1, 2, 3))}

LookupUrl(host) == Url(40, TRUE, "https:", FALSE, host, FALSE)

LookupInit ==
  /\ PipelineInit
  /\ ~aiConfigured /\ mode = "preview"
  /\ LibIdle({"lookup"})
  /\ lookup \in {[NoLookup EXCEPT !.pc = "validate", !.host = host] : host \in LookupHosts}

LookupUnchanged ==
  UNCHANGED << mainVars, norm, runs, miner, jsonld, aitext, wire, built, previews, store, plan >>

\* lines 750 and 811-860: validateUrl with the answer dns.lookup gives it; for
\* a literal address the address itself is what was checked
LookupValidate(answer) ==
  /\ lookup.pc = "validate"
  /\ lookup.host.kind = "name" \/ answer = NoAnswer
  /\ lookup' = [lookup EXCEPT
       !.pc = IF validateUrl(LookupUrl(lookup.host), answer).kind = "error"
              THEN "thrown" ELSE "request",
       !.checked = IF lookup.host.kind = "name" THEN Range(answer.addresses)
                   ELSE {lookup.host.addr}]
  /\ LookupUnchanged

\* lines 757-765: fetch(currentUrl.toString()) resolves the name itself and
\* connects to one of the addresses it gets, or rejects when it gets none
LookupConnect(answer) ==
  /\ lookup.pc = "request"
  /\ lookup.host.kind = "name" \/ answer = NoAnswer
  /\ IF lookup.host.kind # "name"
     THEN lookup' = [lookup EXCEPT !.pc = "connected", !.connected = lookup.host.addr]
     ELSE IF answer.fails \/ Len(answer.addresses) = 0
     THEN lookup' = [lookup EXCEPT !.pc = "thrown"]
     ELSE \E i \in 1..Len(answer.addresses) :
            lookup' = [lookup EXCEPT !.pc = "connected", !.connected = answer.addresses[i]]
  /\ LookupUnchanged

LookupNext == \E answer \in DnsAnswers : LookupValidate(answer) \/ LookupConnect(answer)

LookupSpec == LookupInit /\ [][LookupNext]_vars

(***************************************************************************)
(* Saving a recipe (recipe-saves.service.ts lines 41-184, RecipeService    *)
(* deleteRecipe and copyRecipe, DELETE /recipes/:id).  One user and one    *)
(* live, copyable source recipe.  copies[i] is the recipes row with id i   *)
(* that copyRecipe inserted for the user; rows are the user's recipe_saves *)
(* rows, all with this source_recipe_id.  The unique indexes are           *)
(* (user_id, recipe_id) and (user_id, daily_plan_item_id) where the item   *)
(* is not null (migration 002 lines 109-114).  Each await of a Supabase    *)
(* request is a point where another call can run.                          *)
(***************************************************************************)
MaxSavers == 2

MaxDeletes == 1

Savers == 1..MaxSavers

SourceTypes == {"recipe", "share", "daily_plan_item"}

SaveRow(recipeId, item) == [recipe_id |-> recipeId, item |-> item]

\* a row of the user with this daily_plan_item_id exists
SavedByItem(s) == \E row \in s.rows : row.item

\* the copy is there and not soft-deleted
Live(s, id) == id \in 1..Len(s.copies) /\ ~s.copies[id].deleted

Ended(s, p, result, message) ==
  [s EXCEPT !.proc[p].pc = "done", !.proc[p].result = result, !.proc[p].message = message]

StoreInit ==
  /\ PipelineInit
  /\ ~aiConfigured /\ mode = "preview"
  /\ LibIdle({"store"})
  /\ store \in
       {[NoStore EXCEPT !.proc = [p \in Savers |->
                           [pc |-> "start", type |-> types[p], copy |-> 0,
                            result |-> "none", message |-> ""]]] :
          types \in [Savers -> SourceTypes]}

StoreUnchanged ==
  UNCHANGED << mainVars, norm, runs, miner, jsonld, aitext, wire, built, previews, lookup, plan >>

\* lines 64-107: the source is resolved; for a plan item the save of that item
\* is looked up
SaveResolve(p) ==
  /\ store.proc[p].pc = "start"
  /\ store' = IF store.proc[p].type = "daily_plan_item" /\ SavedByItem(store)
              THEN Ended(store, p, "ConflictError", "Suggestion already saved")
              ELSE [store EXCEPT !.proc[p].pc = "check"]
  /\ StoreUnchanged

\* lines 41-57 and 109-112: maybeSingle gives an error for more than one row
SaveCheck(p) ==
  /\ store.proc[p].pc = "check"
  /\ store' = IF Cardinality(store.rows) > 1
              THEN Ended(store, p, "BadRequestError", "Failed to check existing saves")
              ELSE IF Cardinality(store.rows) = 1
              THEN [Ended(store, p, "ConflictError", "Recipe already saved")
                      EXCEPT !.refusedWithoutCopy =
                               @ \/ ~\E id \in 1..Len(store.copies) : Live(store, id)]
              ELSE [store EXCEPT !.proc[p].pc = "copy"]
  /\ StoreUnchanged

\* lines 114-127: copyRecipe inserts the copy or throws
SaveCopy(p, fails) ==
  /\ store.proc[p].pc = "copy"
  /\ store' = IF fails
              THEN [Ended(store, p, "Error", "Failed to copy recipe") EXCEPT !.faulted = TRUE]
              ELSE [store EXCEPT !.copies = Append(@, [deleted |-> FALSE]),
                                 !.proc[p].copy = Len(store.copies) + 1,
                                 !.proc[p].pc = "insert"]
  /\ StoreUnchanged

\* lines 129-138 and 145-152: the insert of the recipe_saves row; the copy's id
\* is new, so only the plan-item index can refuse it
SaveInsert(p, fails) ==
  /\ store.proc[p].pc = "insert"
  /\ store' = IF fails \/ (store.proc[p].type = "daily_plan_item" /\ SavedByItem(store))
              THEN [store EXCEPT !.proc[p].pc = "rollback", !.faulted = @ \/ fails]
              ELSE [Ended(store, p, "saved", "")
                      EXCEPT !.rows = @ \cup {SaveRow(store.proc[p].copy,
                                                      store.proc[p].type = "daily_plan_item")}]
  /\ StoreUnchanged

\* lines 140-143: deleteRecipe on the copy (its result is not looked at)
SaveRollback(p, fails) ==
  /\ store.proc[p].pc = "rollback"
  /\ store' = [Ended(store, p, "BadRequestError", "Failed to save recipe")
                 EXCEPT !.copies[store.proc[p].copy].deleted = @ \/ ~fails,
                        !.faulted = @ \/ fails]
  /\ StoreUnchanged

\* lines 158-184: deleteRecipeSave; the row delete or the soft delete of the
\* copy may fail
DeleteRecipeSave(row, rowFails, recipeFails) ==
  /\ store.deletes < MaxDeletes
  /\ row \in store.rows
  /\ rowFails => ~recipeFails
  /\ store' = IF rowFails THEN [store EXCEPT !.deletes = @ + 1, !.faulted = TRUE]
              ELSE [store EXCEPT !.deletes = @ + 1,
                                 !.faulted = @ \/ recipeFails,
                                 !.rows = @ \ {row},
                                 !.copies[row.recipe_id].deleted = @ \/ ~recipeFails]
  /\ StoreUnchanged

\* routes/recipes.ts lines 107-121 and deleteRecipe: the recipe is
\* soft-deleted; recipe_saves is not touched
DeleteRecipe(id) ==
  /\ store.deletes < MaxDeletes
  /\ Live(store, id)
  /\ store' = [store EXCEPT !.deletes = @ + 1, !.copies[id].deleted = TRUE]
  /\ StoreUnchanged

StoreNext ==
  \/ \E p \in Savers : SaveResolve(p) \/ SaveCheck(p)
  \/ \E p \in Savers, fails \in BOOLEAN :
       SaveCopy(p, fails) \/ SaveInsert(p, fails) \/ SaveRollback(p, fails)
  \/ \E row \in store.rows, rowFails, recipeFails \in BOOLEAN :
       DeleteRecipeSave(row, rowFails, recipeFails)
  \/ \E id \in 1..Len(store.copies) : DeleteRecipe(id)

StoreSpec == StoreInit /\ [][StoreNext]_vars

(***************************************************************************)
(* The shared daily plan (daily-generation.service.ts lines 23-126,        *)
(* routes/daily.ts lines 138-171).  One call of generateSharedForAllUsers; *)
(* any database request of it may fail.                                    *)
(***************************************************************************)
MaxSuggestions == 4

\* lines 114-126: the update of the status; its error is logged, not thrown
markPlan(row, status, updateFails) ==
  IF updateFails THEN row ELSE [row EXCEPT !.status = status]

\* lines 89-91: the catch block marks the plan failed and rethrows
PlanCatch(row, updateFails) ==
  [markPlan(row, "failed", updateFails) EXCEPT !.pc = "ended", !.result = "thrown"]

PlanInit ==
  /\ PipelineInit
  /\ ~aiConfigured /\ mode = "preview"
  /\ LibIdle({"plan"})
  /\ plan = [NoPlan EXCEPT !.pc = "create"]

PlanUnchanged ==
  UNCHANGED << mainVars, norm, runs, miner, jsonld, aitext, wire, built, previews, lookup,
               store >>

\* lines 28-41: the plan row is inserted with status processing
PlanCreate(fails) ==
  /\ plan.pc = "create"
  /\ plan' = IF fails THEN [plan EXCEPT !.pc = "ended", !.result = "thrown"]
             ELSE [plan EXCEPT !.pc = "generate", !.exists = TRUE, !.status = "processing"]
  /\ PlanUnchanged

\* lines 44-48: generateMealPlan throws, returns nothing (markPlan, throw, and
\* markPlan again in the catch block) or returns n suggestions
PlanGenerate(n, throws, updateFails, secondFails) ==
  /\ plan.pc = "generate"
  /\ throws => n = 0 /\ secondFails = updateFails
  /\ n > 0 => ~updateFails /\ ~secondFails
  /\ plan' = IF throws THEN PlanCatch(plan, updateFails)
             ELSE IF n = 0 THEN PlanCatch(markPlan(plan, "failed", updateFails), secondFails)
             ELSE [plan EXCEPT !.pc = "save", !.n = n]
  /\ PlanUnchanged

\* lines 57-75: one turn of the loop: the recipe is saved and its meal type
\* found, or the turn throws
PlanSaveRecipe(saveFails, mealTypeMissing, updateFails) ==
  /\ plan.pc = "save"
  /\ saveFails => ~mealTypeMissing
  /\ ~(saveFails \/ mealTypeMissing) => ~updateFails
  /\ plan' = IF saveFails \/ mealTypeMissing
             THEN [PlanCatch(plan, updateFails)
                     EXCEPT !.saved = IF saveFails THEN @ ELSE @ + 1]
             ELSE [plan EXCEPT !.saved = @ + 1,
                               !.planItems = Append(@, Len(@) + 1),
                               !.pc = IF plan.saved + 1 = plan.n THEN "insert" ELSE "save"]
  /\ PlanUnchanged

\* lines 77-84: all items are inserted in one request
PlanInsertItems(fails, updateFails) ==
  /\ plan.pc = "insert"
  /\ ~fails => ~updateFails
  /\ plan' = IF fails THEN PlanCatch(plan, updateFails)
             ELSE [plan EXCEPT !.pc = "complete", !.items = Range(plan.planItems)]
  /\ PlanUnchanged

\* lines 86-87: markPlan(completed), then the call returns
PlanMarkCompleted(updateFails) ==
  /\ plan.pc = "complete"
  /\ plan' = [markPlan(plan, "completed", updateFails)
                EXCEPT !.pc = "ended", !.result = "returned"]
  /\ PlanUnchanged

\* routes/daily.ts lines 138-171: the latest completed plan of today and its
\* items, or nothing
GetSuggestions ==
  /\ plan.served = "none"
  /\ plan' = [plan EXCEPT
       !.served = IF plan.exists /\ plan.status = "completed" THEN "plan" ELSE "empty",
       !.servedItems = IF plan.exists /\ plan.status = "completed" THEN plan.items ELSE {}]
  /\ PlanUnchanged

PlanNext ==
  \/ \E fails \in BOOLEAN : PlanCreate(fails)
  \/ \E n \in 0..MaxSuggestions, throws, updateFails, secondFails \in BOOLEAN :
       PlanGenerate(n, throws, updateFails, secondFails)
  \/ \E saveFails, mealTypeMissing, updateFails \in BOOLEAN :
       PlanSaveRecipe(saveFails, mealTypeMissing, updateFails)
  \/ \E fails, updateFails \in BOOLEAN : PlanInsertItems(fails, updateFails)
  \/ \E updateFails \in BOOLEAN : PlanMarkCompleted(updateFails)
  \/ GetSuggestions

PlanSpec == PlanInit /\ [][PlanNext]_vars

(***************************************************************************)
(* Properties                                                              *)
(***************************************************************************)
NonEmptyEnvelope(envelope) ==
  /\ ~envelope.title.null /\ StrLen(envelope.title) > 0
  /\ Len(envelope.ingredients) > 0
  /\ Len(envelope.steps) > 0

C2_BlockedHopNeverRequested ==
  fhist.blockedHop =>
    /\ pc = "done"
    /\ outcome.code = "IMPORT_URL_BLOCKED"
    /\ ~fhist.blockedRequest

TierOrder == <<"chatgpt", "jsonld", "readability", "heuristic", "ai">>

TierIndex(tier) == CHOOSE i \in 1..Len(TierOrder) : TierOrder[i] = tier

\* the tiers that run before tier on this page (the share tier runs on share
\* pages only)
TiersBefore(tier) ==
  {TierOrder[i] : i \in 1..(TierIndex(tier) - 1)} \ (IF page.share THEN {} ELSE {"chatgpt"})

\* the tiers ran in the fixed order, and the run ended at the first success
InOrderFirstSuccess ==
  /\ \A tier \in hist.ran : TiersBefore(tier) \subseteq hist.ran
  /\ \A tier \in hist.succeeded :
       /\ pc = "done"
       /\ outcome.kind = "success"
       /\ outcome.extracted_from = tier
       /\ hist.succeeded = {tier}
       /\ hist.ran = TiersBefore(tier) \cup {tier}
       /\ tier # "ai" => hist.aiCalls = 0
  /\ outcome.kind = "success" => hist.succeeded = {outcome.extracted_from}

\* the import of a fetched page is over
Extracted == pc = "done" /\ hist.guardError.kind = "none" /\ hist.ran # {}

\* the statement of C3 as it was made: a page with valid JSON-LD always
\* yields extracted_from = "jsonld"
C3_Original ==
  /\ InOrderFirstSuccess
  /\ (Extracted /\ page.jsonldValid) =>
       /\ outcome.kind = "success"
       /\ outcome.extracted_from = "jsonld"
       /\ hist.ran \cap {"readability", "heuristic", "ai"} = {}

\* C3: the tiers run in one fixed order and the import returns at the first
\* tier that yields an envelope, extracted_from naming that tier, with no
\* later tier and no AI call; a page with valid JSON-LD yields "jsonld" unless
\* it is a chat-share page whose share tier already succeeded ("chatgpt"), and
\* the readability, heuristic and AI tiers never run on it.
C3_TierOrder ==
  /\ InOrderFirstSuccess
  /\ (Extracted /\ page.jsonldValid) =>
       /\ outcome.kind = "success"
       /\ outcome.extracted_from \in {"jsonld", "chatgpt"}
       /\ outcome.extracted_from = "chatgpt" => page.share
       /\ hist.ran \cap {"readability", "heuristic", "ai"} = {}

\* the JSON-LD tier succeeded after the share tier ran and failed
C3_Witness ==
  /\ Extracted /\ page.jsonldValid
  /\ outcome.extracted_from = "jsonld"
  /\ hist.ran = {"chatgpt", "jsonld"}

\* C4: when every tier has failed, the error is IMPORT_MISSING_FIELDS (422)
\* exactly when the union of the missing fields the tiers reported is
\* non-empty, and missing_fields is that union; otherwise it is
\* IMPORT_NO_RECIPE_FOUND (422).  When the tiers reported steps only,
\* missing_fields is ["steps"].
C4_MissingFieldsUnion ==
  (Extracted /\ outcome.kind = "error") =>
    /\ "ai" \in hist.ran /\ hist.succeeded = {}
    /\ outcome.statusCode = 422
    /\ outcome.code = IF hist.reported # {} THEN "IMPORT_MISSING_FIELDS"
                      ELSE "IMPORT_NO_RECIPE_FOUND"
    /\ Range(outcome.missing_fields) = hist.reported
    /\ Len(outcome.missing_fields) = Cardinality(hist.reported)
    /\ hist.reported = {"steps"} => outcome.missing_fields = <<"steps">>

\* every tier of a non-share page ran and the only field reported is steps
C4_Witness ==
  /\ Extracted
  /\ hist.ran = {"jsonld", "readability", "heuristic", "ai"}
  /\ outcome.code = "IMPORT_MISSING_FIELDS"
  /\ outcome.missing_fields = <<"steps">>

\* no more than four requests, and the redirect error only after four 3xx
RedirectCap ==
  /\ fhist.requests <= MAX_REDIRECTS + 1
  /\ outcome.code = "IMPORT_TOO_MANY_REDIRECTS" => fhist.redirects = MAX_REDIRECTS + 1
  /\ fhist.redirects = MAX_REDIRECTS + 1 => pc \in {"validate", "done"}

\* the statement of C5 as it was made: four 3xx responses in a row always
\* end with IMPORT_TOO_MANY_REDIRECTS
C5_Original ==
  /\ RedirectCap
  /\ (fhist.redirects = MAX_REDIRECTS + 1 /\ pc = "done") =>
       outcome.code = "IMPORT_TOO_MANY_REDIRECTS"

\* C5: three 3xx responses followed by a 200 are fetched, at most four
\* requests are issued for one import, and four 3xx responses in a row end
\* with IMPORT_TOO_MANY_REDIRECTS when the fourth names a target validateUrl
\* accepts (otherwise with the error of that Location header or target).
C5_RedirectCap ==
  /\ RedirectCap
  /\ (fhist.redirects = MAX_REDIRECTS + 1 /\ pc = "done") =>
       /\ outcome.kind = "error"
       /\ fhist.accepted = MAX_REDIRECTS + 2 <=> outcome.code = "IMPORT_TOO_MANY_REDIRECTS"

\* three redirects, then a 2xx whose body was returned
C5_Witness ==
  /\ pc = "fetched"
  /\ fhist.redirects = MAX_REDIRECTS
  /\ fhist.requests = MAX_REDIRECTS + 1

\* C6: readBodyWithLimit raises IMPORT_CONTENT_TOO_LARGE before any body
\* chunk is read when Content-Length exceeds 1,500,000, otherwise at the first
\* chunk that takes the running total above 1,500,000; a body is returned
\* only if its total size is at most 1,500,000 bytes.
C6_SizeCap ==
  /\ fhist.lengthOver =>
       /\ pc = "done"
       /\ outcome.code = "IMPORT_CONTENT_TOO_LARGE" /\ outcome.statusCode = 413
       /\ chunksRead = 0
  /\ total >= MAX_HTML_BYTES + 1 =>
       /\ pc = "done"
       /\ outcome.code = "IMPORT_CONTENT_TOO_LARGE" /\ outcome.statusCode = 413
  /\ (outcome.code = "IMPORT_CONTENT_TOO_LARGE" /\ ~fhist.lengthOver) =>
       chunksRead >= 1 /\ total >= MAX_HTML_BYTES + 1
  /\ pc \in {"body", "fetched"} => total <= MAX_HTML_BYTES

\* the second chunk took the total above the cap
C6_Witness ==
  /\ outcome.code = "IMPORT_CONTENT_TOO_LARGE"
  /\ ~fhist.lengthOver
  /\ chunksRead = 2
  /\ total = 750000 + MAX_HTML_BYTES

\* C7: when the fetch guard raises, extractFromUrl ends with that same error,
\* no extraction tier runs and no AI call is made.
C7_GuardErrorsFatal ==
  hist.guardError.kind # "none" =>
    /\ pc = "done"
    /\ outcome = hist.guardError
    /\ outcome.kind = "error"
    /\ hist.ran = {}
    /\ hist.aiCalls = 0

\* the guard raised on a redirect target
C7_Witness ==
  /\ hist.guardError.code = "IMPORT_URL_BLOCKED"
  /\ fhist.redirects = 1
  /\ pc = "done"

\* validateUrl raised on cur
Rejected == pc = "done" /\ hist.guardError.code \in {"IMPORT_INVALID_URL", "IMPORT_URL_BLOCKED"}

\* the URL is malformed or overlong
Malformed(u) == u.length > MAX_URL_LENGTH \/ ~u.parses

\* the URL is a well-formed http(s) URL
HttpUrl(u) == ~Malformed(u) /\ u.protocol \in {"http:", "https:"}

C9_Original ==
  /\ pc \in {"body", "fetched"} => fhist.declared = "accepted"
  /\ fhist.declared \notin {"none", "accepted"} =>
       /\ pc = "done"
       /\ outcome.code = "IMPORT_UNSUPPORTED_CONTENT" /\ outcome.statusCode = 415
       /\ chunksRead = 0

\* C9: for every 2xx response the body is read and returned only if the
\* response has no Content-Type header, an empty one, or one whose text
\* contains the name of an accepted content type; every other response is
\* rejected with IMPORT_UNSUPPORTED_CONTENT (415) before any body byte is read.
C9_ContentTypes ==
  /\ pc \in {"body", "fetched"} =>
       fhist.declared \in {"accepted", "contains", "absent", "empty"}
  /\ fhist.declared = "other" =>
       /\ pc = "done"
       /\ outcome.code = "IMPORT_UNSUPPORTED_CONTENT" /\ outcome.statusCode = 415
       /\ chunksRead = 0
  /\ outcome.code = "IMPORT_UNSUPPORTED_CONTENT" => fhist.declared = "other"

\* the body of a response without Content-Type header was read and returned
C9_Witness ==
  /\ pc = "fetched"
  /\ fhist.declared = "absent"
  /\ chunksRead >= 1

\* a call of processJob returns
Returns == jpc = "extract" /\ jpc' = "idle"

Incremented ==
  usage.exists /\ usage.imports_count = ImportsCount(quota.before) + 1

\* C11: previewFromUrl starts the pipeline only after it has read the daily
\* counter, found it below DAILY_IMPORT_LIMIT and incremented it; with the
\* counter at or above the limit it raises RateLimitError, leaves the counter
\* as it was and fetches nothing.
C11_GateBeforePipeline ==
  /\ quota.started =>
       /\ quota.checked
       /\ ImportsCount(quota.before) < DAILY_IMPORT_LIMIT
       /\ Incremented
  /\ (mode = "gated" /\ fhist.requests > 0) => quota.started
  /\ outcome.code = "RateLimitError" =>
       /\ ImportsCount(quota.before) >= DAILY_IMPORT_LIMIT
       /\ usage = quota.before
       /\ ~quota.started /\ fhist.requests = 0

\* the error is an ImportError of the pipeline
IsImportError(err) ==
  err.kind = "error" /\ err.code \notin {"Error", "ZodError", "RateLimitError"}

\* C12: the response to a failed POST /import/url carries the ImportError's
\* status code and a JSON body with error and code and, whenever the error
\* carries them, missing_fields and ai_fallback.
C12_ErrorResponseBody ==
  (response.sent /\ IsImportError(outcome)) =>
    /\ response.status = outcome.statusCode
    /\ {"error", "code"} \subseteq response.keys
    /\ response.error = outcome.message /\ response.code = outcome.code
    /\ Len(outcome.missing_fields) > 0 => "missing_fields" \in response.keys
    /\ outcome.ai_fallback.present => "ai_fallback" \in response.keys

\* the strings of a value after the split on commas and line ends
Candidates == splitToStrings(norm.value)

\* the members of the envelope's field
FieldMembers ==
  IF norm.kind = "cuisine"
  THEN IF norm.field = NullText THEN {} ELSE {norm.field}
  ELSE Range(norm.field)

\* C13: in the envelope sanitizeRecipeData and buildEnvelopeAttempt build,
\* every tag, the cuisine unless null, and every dietary label is a member
\* of its canonical list; each comes from a candidate of the extracted
\* value, a value with no mappable candidate leaves the field empty (null
\* for cuisine), and no member appears twice.
C13_CanonicalTaxonomy ==
  norm.pc = "sanitized" =>
    /\ FieldMembers \subseteq Range(CanonicalList(norm.kind))
    /\ \A member \in FieldMembers :
         \E i \in 1..Len(Candidates) : Normalize(norm.kind, <<Candidates[i]>>) \in
                                         {member, <<member>>}
    /\ (\A i \in 1..Len(Candidates) :
          Normalize(norm.kind, <<Candidates[i]>>) \in {NullText, <<>>}) => FieldMembers = {}
    /\ norm.kind # "cuisine" => Len(norm.field) = Cardinality(FieldMembers)

\* an array of an unmappable and a mappable string: the field keeps one tag
C13_Witness ==
  /\ norm.pc = "sanitized" /\ norm.kind = "tags"
  /\ Len(Candidates) = 2 /\ Len(norm.field) = 1
  /\ Normalize("tags", <<Candidates[1]>>) = <<>>

\* C14: each of normalizeRecipeTags, normalizeCuisine and
\* normalizeDietaryLabels returns its own result unchanged when applied to
\* it, and maps every canonical value, those with underscores included, to
\* itself.
C14_Idempotent ==
  /\ norm.pc = "twice" => norm.twice = norm.once
  /\ (norm.pc \in {"once", "twice"} /\ Len(norm.value) = 1
        /\ norm.value[1] \in Range(CanonicalList(norm.kind))) =>
       AsValue(norm.kind, norm.once) = norm.value

\* keto_friendly went through normalizeDietaryLabels twice
C14_Witness ==
  /\ norm.pc = "twice" /\ norm.kind = "dietary_labels"
  /\ norm.value = <<CANONICAL_DIETARY_LABELS[7]>>
  /\ norm.twice = norm.value

\* the tiers in sequence, from the state run to the await of extractFromAI
RECURSIVE RunTiers(_)
RunTiers(run) == IF run.pc \in {"ai", "done"} THEN run ELSE RunTiers(OrchStep(run))

\* the outcome of a call that runs alone on content and gets ai
Alone(content, ai) ==
  LET atAi == RunTiers(Fetched(content))
  IN IF atAi.pc = "done" THEN atAi.outcome ELSE OrchFinish(atAi, ai).outcome

SectionLabels == INGREDIENT_LABELS \cup STEP_LABELS \cup STOP_WORDS

\* C16: the item list of a section ends at the first following line that is
\* the label of any section, so no ingredient is a section heading, and the
\* text of Grandma's Stew yields its title, the ingredients onion and carrot
\* and the steps Chop. and Simmer.
C16_SectionEndsAtLabel ==
  miner.pc = "mined" =>
    /\ \A i \in 1..Len(miner.ingredients) :
         normalizeSectionHeading(miner.ingredients[i]) \notin SectionLabels
    /\ miner.text = GrandmaText =>
         /\ miner.title = SubSeq(GrandmaText, 3, 16)
         /\ miner.ingredients = <<<<"o", "n", "i", "o", "n">>, <<"c", "a", "r", "r", "o", "t">>>>
         /\ miner.steps = <<<<"C", "h", "o", "p", ".">>, <<"S", "i", "m", "m", "e", "r", ".">>>>

\* C17: when every tier ran and none found a title, an ingredients section
\* or a steps section, extractFromUrl raises IMPORT_NO_RECIPE_FOUND and not
\* IMPORT_MISSING_FIELDS.
C17_NoSignalNoRecipeFound ==
  (pc = "done" /\ outcome.kind = "error" /\ "ai" \in hist.ran /\ ~hist.signal) =>
    outcome.code = "IMPORT_NO_RECIPE_FOUND"

\* the messages of the two errors extractFromUrl raises at its end
FinalMessages ==
  {"We could not find all required recipe fields on that page.",
   "We could not find a recipe on that page."}

\* C18: extractFromAI never throws, so once the AI tier ran the call ends
\* in a success or in one of the two final errors with their fixed
\* messages; without a credential no model call is made; and the final
\* error carries ai_fallback, with attempted true and failed set, exactly
\* when a model call was made.
C18_AiNeverThrows ==
  /\ ~aiConfigured => hist.aiCalls = 0
  /\ "ai" \in hist.ran =>
       /\ pc = "done"
       /\ outcome.kind = "success"
            \/ /\ outcome.code \in {"IMPORT_MISSING_FIELDS", "IMPORT_NO_RECIPE_FOUND"}
               /\ outcome.message \in FinalMessages
  /\ (pc = "done" /\ outcome.kind = "error") =>
       /\ outcome.ai_fallback.present <=> hist.aiCalls > 0
       /\ outcome.ai_fallback.present =>
            outcome.ai_fallback.attempted /\ outcome.ai_fallback.failed
       /\ ~outcome.ai_fallback.present =>
            ~outcome.ai_fallback.attempted /\ ~outcome.ai_fallback.failed

\* the model was called, failed, and the final error says so
C18_Witness ==
  /\ pc = "done" /\ outcome.code = "IMPORT_MISSING_FIELDS"
  /\ hist.aiCalls = 1 /\ ~("ai" \in hist.succeeded)
  /\ outcome.ai_fallback = [present |-> TRUE, attempted |-> TRUE, failed |-> TRUE]

Matched == SelectSeq(jsonld.blocks, LAMBDA b : b.kind = "recipe")

Builds(block) == buildEnvelopeAttempt(block.data).hasEnvelope

\* C20: extractFromJsonLd returns the envelope of the first Recipe node, in
\* document order, that builds; when none builds, the missing fields of the
\* first Recipe node alone, if it misses any; and neither envelope nor
\* missing fields when the document has no Recipe node.
C20_FirstNode ==
  jsonld.pc = "returned" =>
    /\ jsonld.attempt.hasEnvelope <=> \E i \in 1..Len(Matched) : Builds(Matched[i])
    /\ \A i \in 1..Len(Matched) :
         (Builds(Matched[i]) /\ \A j \in 1..(i - 1) : ~Builds(Matched[j])) =>
           jsonld.attempt = buildEnvelopeAttempt(Matched[i].data)
    /\ (Len(Matched) > 0 /\ ~jsonld.attempt.hasEnvelope) =>
         /\ jsonld.attempt.missing_fields = buildMissingFields(Matched[1].data)
         /\ jsonld.attempt.hasMissing <=> Len(buildMissingFields(Matched[1].data)) > 0
    /\ Len(Matched) = 0 => jsonld.attempt = EmptyAttempt

\* two Recipe nodes that miss different fields: the first one's are reported
C20_Witness ==
  /\ jsonld.pc = "returned" /\ Len(Matched) = 2
  /\ buildMissingFields(Matched[1].data) = <<"steps">>
  /\ buildMissingFields(Matched[2].data) = <<"title">>
  /\ jsonld.attempt.hasMissing /\ jsonld.attempt.missing_fields = <<"steps">>

\* C21: the text sent to the language model is never longer than
\* MAX_AI_TEXT_CHARS, whether it is the override of the share or readability
\* tier or the plain text reduced from the HTML
C21_PromptTextCapped ==
  aitext.pc = "done" /\ aitext.attempted => aitext.sent <= MAX_AI_TEXT_CHARS

\* C22: every hop is under the abort timer from the start of the request
\* until its body has been read completely
C22_TimerCoversHop ==
  wire.pc \in {"requesting", "reading"} => wire.timer

\* the consequence drawn from it, checked under WireFairSpec: a call ends by
\* returning or throwing whatever the server does
WireTerminates == <>(wire.pc \in {"returned", "thrown"})

\* the trimmed lines of a text with its blank lines kept
RawLines(text) ==
  [i \in 1..Len(SplitLines(text, <<>>)) |-> TrimText(SplitLines(text, <<>>)[i])]

\* the lines from index i on up to the first blank line that follows a line
\* already taken; blank lines before the first taken line are passed over
RECURSIVE FirstGroup(_, _, _)
FirstGroup(lines, i, taken) ==
  IF i > Len(lines) THEN taken
  ELSE IF Len(lines[i]) = 0
  THEN IF Len(taken) > 0 THEN taken ELSE FirstGroup(lines, i + 1, taken)
  ELSE FirstGroup(lines, i + 1, Append(taken, lines[i]))

\* the first group of lines after the first label line of a section
GroupAfterHeading(text, labelSet) ==
  IF StartIndex(RawLines(text), labelSet, 1) = 0 THEN <<>>
  ELSE FirstGroup(RawLines(text), StartIndex(RawLines(text), labelSet, 1), <<>>)

\* C23: a blank line after the first item ends the section and a blank line
\* directly after the heading is passed over, so a section holds no more
\* items than the first group of lines after its heading, and the text
\* Ingredients / blank / onion / blank / Chop. yields the one ingredient onion
C23_BlankLineEndsSection ==
  miner.pc = "mined" =>
    /\ Len(miner.ingredients) <= Len(GroupAfterHeading(miner.text, INGREDIENT_LABELS))
    /\ Len(miner.steps) <= Len(GroupAfterHeading(miner.text, STEP_LABELS))
    /\ miner.text = SpacedText => miner.ingredients = <<<<"o", "n", "i", "o", "n">>>>

\* the data has a title, ingredients and steps, and the envelope assembled
\* from it fails the wire schema
FailsValidation(data) ==
  /\ Len(buildMissingFields(data)) = 0
  /\ ~recipeEnvelopeSchema(EnvelopeOf(sanitizeRecipeData(data)))

\* C24: for complete data whose envelope fails validation, the attempt has no
\* envelope and missing_fields = [ingredients, steps], and the orchestrator
\* adds exactly those two fields to what it had, keeping the order
C24_ValidationFailureIsMissingFields ==
  built.pc \in {"merged", "returned"} /\ FailsValidation(built.data) =>
    /\ built.pc = "merged"
    /\ ~built.attempt.hasEnvelope
    /\ built.attempt.hasMissing
    /\ built.attempt.missing_fields = <<"ingredients", "steps">>
    /\ Range(built.after) = Range(built.before) \cup {"ingredients", "steps"}
    /\ Len(built.after) = Cardinality(Range(built.after))
    /\ SubSeq(built.after, 1, Len(built.before)) = built.before

C24_Witness ==
  /\ built.pc = "merged" /\ FailsValidation(built.data)
  /\ built.before = <<"title", "ingredients">>
  /\ built.after = <<"title", "ingredients", "steps">>

\* C25: however the calls of one user on one day interleave, no more than
\* DAILY_IMPORT_LIMIT of them pass the quota check and go on to extraction
C25_QuotaNeverExceeded ==
  previews.passed <= DAILY_IMPORT_LIMIT

\* C26: completed and failed are terminal: once the job has one of them no
\* later processJob call changes its status, and no job ever has more than
\* one recipe created for it
C26_TerminalStatuses ==
  /\ [][job.status \in {"completed", "failed"} => job'.status = job.status]_vars
  /\ [](recipes <= 1)

\* C27: the address fetch connects to on a hop is one of the addresses
\* validateUrl resolved and checked for that hop
C27_ConnectsToCheckedAddress ==
  lookup.pc = "connected" => lookup.connected \in lookup.checked

AllSaved == \A p \in DOMAIN store.proc : store.proc[p].pc = "done"

LiveCopies == {id \in 1..Len(store.copies) : Live(store, id)}

\* C28: when the createRecipeSave calls of one user for one source recipe
\* have ended (no delete call among them and no database request failing for
\* a reason of its own), there is one recipe_saves row and one live copy, and
\* every call but the one that saved ended with ConflictError
C28_OneSavePerSource ==
  (store.proc # <<>> /\ AllSaved /\ store.deletes = 0 /\ ~store.faulted) =>
    /\ Cardinality(store.rows) = 1
    /\ Cardinality(LiveCopies) = 1
    /\ Cardinality({p \in Savers : store.proc[p].result = "saved"}) = 1
    /\ \A p \in Savers :
         store.proc[p].result # "saved" => store.proc[p].result = "ConflictError"

\* C29: every recipe_saves row references a recipe that is not soft-deleted,
\* and no call was refused with 'Recipe already saved' while the user held no
\* live copy
C29_SavesReferenceLiveRecipes ==
  /\ \A row \in store.rows : Live(store, row.recipe_id)
  /\ ~store.refusedWithoutCopy

\* every generated recipe is saved and the items with ranks 1..n are stored
PlanComplete == plan.n > 0 /\ plan.saved = plan.n /\ plan.items = 1..plan.n

\* C30: a plan starts in processing and is completed only when every recipe
\* is saved and all items with ranks 1..n are inserted; a call that throws
\* leaves the plan failed; no plan is in processing when the call has ended;
\* and GET /daily/suggestions serves only complete plans
C30_PlanLifecycle ==
  /\ plan.pc \in {"generate", "save", "insert", "complete"} => plan.status = "processing"
  /\ (plan.exists /\ plan.status = "completed") => PlanComplete
  /\ (plan.exists /\ plan.result = "thrown") => plan.status = "failed"
  /\ (plan.exists /\ plan.pc = "ended") => plan.status # "processing"
  /\ plan.served = "plan" => plan.servedItems = 1..plan.n /\ plan.n > 0

\* the part that does not depend on markPlan's update: completion and serving
PlanNeverServedIncomplete ==
  /\ (plan.exists /\ plan.status = "completed") => PlanComplete
  /\ plan.served = "plan" => plan.servedItems = 1..plan.n /\ plan.n > 0

====
